---- MODULE Spec2Model ----
(***************************************************************************)
(* The task lifecycle of the SNAP reference implementation (TaskManager),  *)
(* modelled from reference/typescript/src/identity.ts and types.ts.        *)
(*                                                                         *)
(* Representation.                                                         *)
(*  - A JavaScript object is a function from its keys to their values; a   *)
(*    key whose value is undefined is modelled as an absent key (the code  *)
(*    only ever reads fields, so the two are indistinguishable to it).     *)
(*  - An optional argument or optional property of an object literal is    *)
(*    Undefined (<<>>) or Some(v) (<<v>>): `{message: undefined}` is a     *)
(*    property that is present and overwrites on spread.                   *)
(*  - ISO timestamps are clock ticks (integers).                           *)
(*  - progress is counted in halves: 0 is 0.0, 1 is 0.5, 2 is 1.0.         *)
(*                                                                         *)
(* The message builder (MessageBuilder, MessageUtils) is modelled from     *)
(* reference/typescript/src/index.ts and the schemas of types.ts; the      *)
(* canonicalizer and the identity (keys, signing, verifying) from          *)
(* identity.ts.  A built message is a function from its keys, as a task    *)
(* is; for the canonicalizer, which depends on the order the keys were     *)
(* inserted in, a value is a node that lists its properties in order.      *)
(***************************************************************************)
EXTENDS Integers, Sequences, FiniteSets, TLC

VARIABLES
    now,        \* the time last read from the wall clock by new Date()
    task,       \* the task value the caller holds (NoTask before createTask)
    given,      \* the task value passed to the last TaskManager call, as it was
    held,       \* the task object passed to the last call, as it is after the call
    call,       \* the last TaskManager call: its name and arguments
    outcome,    \* "none", "task" (a task was returned) or "error" (it threw)
    calls,      \* number of TaskManager calls made so far
    answer,     \* what the last derived query returned (NoAnswer after other calls)
    step,       \* position in the README's task-management example
    store,      \* the task held by the external last-write-wins task store
    writers,    \* the store's clients: snapshot read, transition computed
    log,        \* the writes to the store in their order: the client that wrote, or
                \* the update the store applied itself
    list,       \* an array of tasks a caller handed to TaskUtils, and what came back
    builder,    \* the message a MessageBuilder accumulates (NoBuilder before it is made)
    made,       \* how the builder was made: new MessageBuilder(from) or reply(original, from)
    trace,      \* the calls chained on the builder so far, in call order
    built,      \* what the last build() / buildForSigning() returned or threw
    kept,       \* a message build() returned earlier, as the caller holds it now
    thread,     \* a conversation: a received message and the replies built in turn
    subject,    \* a value handed to the canonicalizer
    shuffled,   \* the same value, its keys inserted in another order
    canon,      \* the canonical strings of subject and shuffled, once computed
    agent,      \* an AgentIdentity: identity reference, private and public key
    wire,       \* a message and its signature, as sent and as it reaches the verifier
    verdict     \* what verifySignature returned for the message on the wire

vars == <<now, task, given, held, call, outcome, calls, answer, step, store, writers, log, list,
          builder, made, trace, built, kept, thread, subject, shuffled, canon, agent, wire, verdict>>
callerVars == <<task, given, held, call, outcome, calls, answer>>
storeVars == <<store, writers, log>>
taskVars == <<now, callerVars, step, storeVars, list>>
builderVars == <<builder, made, trace, built, kept, thread>>
canonVars == <<subject, shuffled, canon>>
signVars == <<agent, wire, verdict>>
messagingVars == <<builderVars, canonVars, signVars, list>>

----------------------------------------------------------------------------
(* Bounds of the model *)

MaxClock == 1        \* the clock runs over 0..MaxClock
MaxCalls == 3        \* TaskManager calls per behaviour
MaxWrites == 2       \* writes to the task store per behaviour
MaxSerial == 3       \* updates a serializing task store applies per behaviour
MaxListed == 2       \* tasks in an array handed to TaskUtils
MaxChained == 2      \* calls chained on one builder (all setters, all kinds of part)
MaxOrdered == 3      \* calls chained on one builder when their order is compared
MaxLater == 2        \* calls chained on a builder around a build() whose message is kept
MaxReplies == 3      \* replies built in one conversation

(* Program constants *)

PROGRESS_MAX == 2    \* z.number().min(0).max(1), in halves

----------------------------------------------------------------------------
(* Values *)

Undefined == <<>>
Some(v) == <<v>>
IsSome(o) == Len(o) = 1

NoTask == [k \in {} |-> 0]
Has(obj, k) == k \in DOMAIN obj
\* obj[k] as an optional value (obj.k, which may be undefined)
Get(obj, k) == IF k \in DOMAIN obj THEN Some(obj[k]) ELSE Undefined

QUEUED == "queued"
PROCESSING == "processing"
COMPLETED == "completed"
FAILED == "failed"
CANCELLED == "cancelled"
TaskStatus == {QUEUED, PROCESSING, COMPLETED, FAILED, CANCELLED}

(* SNAP messages, as far as the task schema looks at them: a message is    *)
(* accepted iff it has at least one part.                                  *)
Messages ==
    { [id |-> "msg_1", version |-> "1.1", parts |-> 1],
      [id |-> "msg_2", version |-> "1.1", parts |-> 2],
      [id |-> "msg_3", version |-> "1.1", parts |-> 0] }

SNAPMessageSchemaOk(m) == m.parts >= 1

ValidMessages == {m \in Messages : SNAPMessageSchemaOk(m)}

(* Task creation requests (the output of TaskCreateRequestSchema.parse).   *)
Requests ==
    { [message |-> m, priority |-> "normal"] : m \in {CHOOSE v \in ValidMessages : TRUE} }
    \cup
    { [message |-> m, priority |-> "high", timeout |-> 300,
       callback |-> "https://your-app.com/webhooks/task-status",
       metadata |-> [tag |-> "t"]] : m \in {CHOOSE v \in ValidMessages : TRUE} }
    \cup
    { [message |-> m, priority |-> "low", timeout |-> 0] :
       m \in {CHOOSE v \in ValidMessages : TRUE} }
    \cup
    { [message |-> m, priority |-> "normal", metadata |-> [timeout |-> 0]] :
       m \in {CHOOSE v \in ValidMessages : TRUE} }

AgentIds == {"snap:agent:a"}
TaskIds == {"task_1"}

ProgressArgs == {-2, -1, 0, 1, 2, 3}     \* -1.0, -0.5, 0.0, 0.5, 1.0, 1.5
StatusTexts == {"Working"}
ErrorTexts == {"e1", "e2"}
Reasons == {"", "r1"}

----------------------------------------------------------------------------
(* Object spread and the task schema *)

\* {...base, ...over}: every property of `over` overwrites, also one whose
\* value is undefined.
Spread(base, over) ==
    LET keys == DOMAIN base \cup DOMAIN over
        live == {k \in keys : IF k \in DOMAIN over THEN IsSome(over[k]) ELSE TRUE}
    IN  [k \in live |-> IF k \in DOMAIN over THEN over[k][1] ELSE base[k]]

\* ...(cond && {key: value})
SpreadIf(cond, key, value) ==
    IF cond THEN (key :> Some(value)) ELSE [k \in {} |-> Undefined]

\* TaskSchema with progress: z.number().optional()
TaskSchemaOkAnyProgress(obj) ==
    /\ Has(obj, "id")
    /\ Has(obj, "status") /\ obj.status \in TaskStatus
    /\ Has(obj, "result") => SNAPMessageSchemaOk(obj.result)
    /\ Has(obj, "createdAt")
    /\ Has(obj, "updatedAt")

\* TaskSchema.parse: the parsed task, or a thrown ZodError.
TaskSchemaOk(obj) ==
    /\ Has(obj, "id")
    /\ Has(obj, "status") /\ obj.status \in TaskStatus
    /\ Has(obj, "progress") => (obj.progress >= 0 /\ obj.progress <= PROGRESS_MAX)
    /\ Has(obj, "result") => SNAPMessageSchemaOk(obj.result)
    /\ Has(obj, "createdAt")
    /\ Has(obj, "updatedAt")

TaskSchemaParse(obj) ==
    IF TaskSchemaOk(obj) THEN [ok |-> TRUE, value |-> obj] ELSE [ok |-> FALSE]

----------------------------------------------------------------------------
(* TaskManager *)

\* truthiness of a number / of a string
TruthyNum(n) == n # 0
TruthyStr(s) == s # ""

\* createTask seeding the progress of the new task
createTaskWithProgress(request, agentId, id, clock) ==
    [id |-> id, status |-> QUEUED, progress |-> 0, createdAt |-> clock,
     updatedAt |-> clock, metadata |-> [agentId |-> agentId]]

createTask(request, agentId, id, clock) ==
    LET reqMeta == IF Has(request, "metadata") THEN request.metadata ELSE NoTask
        metadata ==
            Spread(Spread(Spread(reqMeta,
                [agentId |-> Some(agentId), priority |-> Some(request.priority)]),
                SpreadIf(Has(request, "timeout") /\ TruthyNum(request.timeout),
                         "timeout", IF Has(request, "timeout") THEN request.timeout ELSE 0)),
                SpreadIf(Has(request, "callback") /\ TruthyStr(request.callback),
                         "callback", IF Has(request, "callback") THEN request.callback ELSE ""))
    IN  [id |-> id, status |-> QUEUED, createdAt |-> clock, updatedAt |-> clock,
         metadata |-> metadata]

\* updateTask building the new task from the update alone
updateTaskFromUpdateOnly(t, update, clock) ==
    TaskSchemaParse(Spread(Spread(NoTask, update), [updatedAt |-> Some(clock)]))

\* updateTask leaving updatedAt as it was
updateTaskUnstamped(t, update, clock) ==
    TaskSchemaParse(Spread(t, update))

updateTask(t, update, clock) ==
    TaskSchemaParse(Spread(Spread(t, update), [updatedAt |-> Some(clock)]))

startProcessing(t, message, estimatedCompletion, clock) ==
    updateTask(t, [status |-> Some(PROCESSING), progress |-> Some(0),
                   message |-> message,
                   estimatedCompletion |-> estimatedCompletion], clock)

Min(a, b) == IF a < b THEN a ELSE b
Max(a, b) == IF a > b THEN a ELSE b

\* updateProgress handing the caller's number on as it is
updateProgressUnclamped(t, progress, message, clock) ==
    updateTask(t, [progress |-> Some(progress), message |-> message], clock)

\* updateProgress that also marks the task as processing
updateProgressStarting(t, progress, message, clock) ==
    updateTask(t, [status |-> Some(PROCESSING),
                   progress |-> Some(Max(0, Min(PROGRESS_MAX, progress))),
                   message |-> message], clock)

updateProgress(t, progress, message, clock) ==
    updateTask(t, [progress |-> Some(Max(0, Min(PROGRESS_MAX, progress))),
                   message |-> message], clock)

\* complete leaving the progress where it was
completeKeepingProgress(t, result, clock) ==
    updateTask(t, [status |-> Some(COMPLETED), result |-> Some(result),
                   message |-> Some("Task completed successfully")], clock)

complete(t, result, clock) ==
    updateTask(t, [status |-> Some(COMPLETED), progress |-> Some(PROGRESS_MAX),
                   result |-> Some(result),
                   message |-> Some("Task completed successfully")], clock)

fail(t, error, clock) ==
    updateTask(t, [status |-> Some(FAILED), error |-> Some(error),
                   message |-> Some("Task failed")], clock)

\* cancel recording the reason as the message only
cancelMessageOnly(t, reason, clock) ==
    updateTask(t, [status |-> Some(CANCELLED),
                   message |-> IF IsSome(reason) /\ TruthyStr(reason[1])
                               THEN reason ELSE Some("Task cancelled")], clock)

cancel(t, reason, clock) ==
    updateTask(t, [status |-> Some(CANCELLED),
                   message |-> IF IsSome(reason) /\ TruthyStr(reason[1])
                               THEN reason ELSE Some("Task cancelled"),
                   error |-> reason], clock)

\* updateTask stamping the task object it was passed
passedStamped(t, clock) == [t EXCEPT !.updatedAt = clock]

\* The task object passed to a transition, after the call: updateTask spreads
\* it into a new object, TaskSchema.parse returns another, and neither they
\* nor the methods that call updateTask assign to a property of it.
passed(t, clock) == t

isActive(t) == t.status = QUEUED \/ t.status = PROCESSING

\* isCompleted leaving cancelled out
isCompletedWithoutCancelled(t) == t.status \in {COMPLETED, FAILED}

isCompleted(t) == t.status \in {COMPLETED, FAILED, CANCELLED}

\* One clock tick is ten minutes; the queries count in seconds.
SecondsPerTick == 10 * 60

\* task.metadata?.timeout
Timeout(t) ==
    IF Has(t, "metadata") /\ Has(t.metadata, "timeout") THEN Some(t.metadata.timeout)
    ELSE Undefined

isExpired(t, dateNow) ==
    LET timeout == Timeout(t)
    IN  IF ~(IsSome(timeout) /\ TruthyNum(timeout[1])) THEN FALSE
        ELSE (dateNow - t.createdAt) * SecondsPerTick > timeout[1]

getDuration(t, dateNow) ==
    LET endTime == IF isCompleted(t) THEN t.updatedAt ELSE dateNow
    IN  (endTime - t.createdAt) * SecondsPerTick

\* null (Undefined) or the estimated completion time, in seconds; progress is
\* in halves, so duration / progress is duration * PROGRESS_MAX \div progress.
estimateCompletion(t, dateNow1, dateNow2) ==
    IF ~(Has(t, "progress") /\ TruthyNum(t.progress)) THEN Undefined
    ELSE LET duration == getDuration(t, dateNow1)
             estimatedTotal == (duration * PROGRESS_MAX) \div t.progress
             remainingTime == estimatedTotal - duration
         IN  Some(dateNow2 * SecondsPerTick + remainingTime)

QueryNames == {"isActive", "isCompleted", "isExpired", "getDuration", "estimateCompletion"}

\* A derived query that cancels the task it finds expired
QueryCancellingExpired(q, t, dateNow1, dateNow2) ==
    [value |-> CASE q = "isActive" -> isActive(t)
                 [] q = "isCompleted" -> isCompleted(t)
                 [] q = "isExpired" -> isExpired(t, dateNow1)
                 [] q = "getDuration" -> getDuration(t, dateNow1)
                 [] q = "estimateCompletion" -> estimateCompletion(t, dateNow1, dateNow2),
     task |-> IF q = "isExpired" /\ isExpired(t, dateNow1)
              THEN [t EXCEPT !.status = CANCELLED] ELSE t]

\* The derived query q on the task object t: the value it returns and the
\* object after the call (none of them assigns to it).
Query(q, t, dateNow1, dateNow2) ==
    [value |-> CASE q = "isActive" -> isActive(t)
                 [] q = "isCompleted" -> isCompleted(t)
                 [] q = "isExpired" -> isExpired(t, dateNow1)
                 [] q = "getDuration" -> getDuration(t, dateNow1)
                 [] q = "estimateCompletion" -> estimateCompletion(t, dateNow1, dateNow2),
     task |-> t]

----------------------------------------------------------------------------
(* The caller: it holds one task value and applies TaskManager operations  *)
(* to it; a thrown error leaves it holding the value it had.               *)

NoAnswer == [of |-> "none"]
NoBuilder == [k \in {} |-> 0]
NotMade == [op |-> "none"]
NotBuilt == [op |-> "none"]
NoList == [op |-> "none"]
NotKept == [op |-> "none"]
Nothing == [t |-> "nothing"]
NotCanonicalized == [done |-> FALSE]
NoAgent == [made |-> FALSE]
NoWire == [sent |-> FALSE]
NotVerified == [done |-> FALSE]
Writers == {1, 2}
IdleWriter == [pc |-> "idle"]

Init ==
    /\ now = 0
    /\ task = NoTask
    /\ given = NoTask
    /\ held = NoTask
    /\ call = [op |-> "none"]
    /\ outcome = "none"
    /\ calls = 0
    /\ answer = NoAnswer
    /\ step = 0
    /\ store = NoTask
    /\ writers = [w \in Writers |-> IdleWriter]
    /\ log = <<>>
    /\ list = NoList
    /\ builder = NoBuilder
    /\ made = NotMade
    /\ trace = <<>>
    /\ built = NotBuilt
    /\ kept = NotKept
    /\ thread = <<>>
    /\ subject = Nothing
    /\ shuffled = Nothing
    /\ canon = NotCanonicalized
    /\ agent = NoAgent
    /\ wire = NoWire
    /\ verdict = NotVerified

HasTask == Has(task, "status")

\* new Date(): the wall clock does not run backwards.
Clock == {c \in now..(now + 1) : c <= MaxClock}

\* The caller receives `res` from the call `c` made at time `clock` on the
\* task it holds.
Return(c, clock, res) ==
    /\ HasTask
    /\ calls' = calls + 1
    /\ call' = c
    /\ given' = task
    /\ held' = passed(task, clock)
    /\ outcome' = IF res.ok THEN "task" ELSE "error"
    /\ task' = IF res.ok THEN res.value ELSE task
    /\ answer' = NoAnswer
    /\ now' = clock

CreateTask ==
    /\ ~HasTask
    /\ calls < MaxCalls
    /\ \E request \in Requests, agentId \in AgentIds, id \in TaskIds, clock \in Clock :
        /\ call' = [op |-> "createTask", request |-> request]
        /\ task' = createTask(request, agentId, id, clock)
        /\ now' = clock
    /\ calls' = calls + 1
    /\ given' = NoTask
    /\ held' = NoTask
    /\ outcome' = "task"
    /\ answer' = NoAnswer
    /\ UNCHANGED <<step, storeVars, messagingVars>>

StartProcessing ==
    /\ calls < MaxCalls
    /\ \E message \in {Undefined} \cup {Some(s) : s \in StatusTexts},
          est \in {Undefined, Some(now + 1)}, clock \in Clock :
        Return([op |-> "startProcessing", message |-> message, estimatedCompletion |-> est],
               clock, startProcessing(task, message, est, clock))
    /\ UNCHANGED <<step, storeVars, messagingVars>>

UpdateProgress ==
    /\ calls < MaxCalls
    /\ \E progress \in ProgressArgs,
          message \in {Undefined} \cup {Some(s) : s \in StatusTexts}, clock \in Clock :
        Return([op |-> "updateProgress", progress |-> progress, message |-> message],
               clock, updateProgress(task, progress, message, clock))
    /\ UNCHANGED <<step, storeVars, messagingVars>>

Complete ==
    /\ calls < MaxCalls
    /\ \E result \in Messages, clock \in Clock :
        Return([op |-> "complete", result |-> result], clock, complete(task, result, clock))
    /\ UNCHANGED <<step, storeVars, messagingVars>>

Fail ==
    /\ calls < MaxCalls
    /\ \E error \in ErrorTexts, clock \in Clock :
        Return([op |-> "fail", error |-> error], clock, fail(task, error, clock))
    /\ UNCHANGED <<step, storeVars, messagingVars>>

Cancel ==
    /\ calls < MaxCalls
    /\ \E reason \in {Undefined} \cup {Some(r) : r \in Reasons}, clock \in Clock :
        Return([op |-> "cancel", reason |-> reason], clock, cancel(task, reason, clock))
    /\ UNCHANGED <<step, storeVars, messagingVars>>

\* A TaskUpdate object literal holding the given properties (Undefined: the
\* property is not written).
Prop(key, o) == IF IsSome(o) THEN (key :> o) ELSE [k \in {} |-> Undefined]

TaskUpdate(status, progress, result, error) ==
    Prop("status", status) @@ Prop("progress", progress)
        @@ Prop("result", result) @@ Prop("error", error)

\* The metadata an update carries
UpdateMetadatas == {[note |-> "n"]}

\* The updates a caller passes to updateTask directly: a single property.
Updates ==
    { u \in { TaskUpdate(s, p, r, e) :
                s \in {Undefined} \cup {Some(x) : x \in TaskStatus},
                p \in {Undefined} \cup {Some(x) : x \in ProgressArgs},
                r \in {Undefined} \cup {Some(x) : x \in Messages},
                e \in {Undefined} \cup {Some(x) : x \in ErrorTexts} } :
        Cardinality(DOMAIN u) = 1 }
    \cup { Prop("metadata", Some(md)) : md \in UpdateMetadatas }

UpdateTask ==
    /\ calls < MaxCalls
    /\ \E update \in Updates, clock \in Clock :
        Return([op |-> "updateTask", update |-> update], clock, updateTask(task, update, clock))
    /\ UNCHANGED <<step, storeVars, messagingVars>>

\* A derived query on the task the caller holds; the caller goes on with the
\* object it passed.  Only the time-dependent queries read the clock
\* (estimateCompletion reads it twice).
Asked(q, dateNow1, dateNow2) ==
    /\ HasTask
    /\ calls < MaxCalls
    /\ calls' = calls + 1
    /\ call' = [op |-> q]
    /\ given' = task
    /\ held' = Query(q, task, dateNow1, dateNow2).task
    /\ outcome' = "answer"
    /\ answer' = [of |-> q, value |-> Query(q, task, dateNow1, dateNow2).value]
    /\ task' = Query(q, task, dateNow1, dateNow2).task
    /\ now' = dateNow2
    /\ UNCHANGED <<step, storeVars, messagingVars>>

IsActive == Asked("isActive", now, now)

IsCompleted == Asked("isCompleted", now, now)

IsExpired == \E dateNow \in Clock : Asked("isExpired", dateNow, dateNow)

GetDuration == \E dateNow \in Clock : Asked("getDuration", dateNow, dateNow)

EstimateCompletion ==
    \E dateNow1 \in Clock :
        \E dateNow2 \in {c \in dateNow1..(dateNow1 + 1) : c <= MaxClock} :
            Asked("estimateCompletion", dateNow1, dateNow2)

Next ==
    \/ CreateTask
    \/ UpdateTask
    \/ StartProcessing
    \/ UpdateProgress
    \/ Complete
    \/ Fail
    \/ Cancel
    \/ IsActive
    \/ IsCompleted
    \/ IsExpired
    \/ GetDuration
    \/ EstimateCompletion

Spec == Init /\ [][Next]_vars

----------------------------------------------------------------------------
(* The README's task-management example: createTask, startProcessing,      *)
(* updateProgress(0.5), complete(resultMessage).                           *)

ExampleCreateTask ==
    /\ step = 0
    /\ \E request \in Requests, agentId \in AgentIds, id \in TaskIds, clock \in Clock :
        /\ call' = [op |-> "createTask", request |-> request]
        /\ task' = createTask(request, agentId, id, clock)
        /\ now' = clock
    /\ calls' = calls + 1
    /\ given' = NoTask
    /\ held' = NoTask
    /\ outcome' = "task"
    /\ answer' = NoAnswer
    /\ step' = 1
    /\ UNCHANGED <<storeVars, messagingVars>>

ExampleStartProcessing ==
    /\ step = 1
    /\ \E message \in {Undefined} \cup {Some(s) : s \in StatusTexts},
          est \in {Undefined, Some(now + 1)}, clock \in Clock :
        Return([op |-> "startProcessing", message |-> message, estimatedCompletion |-> est],
               clock, startProcessing(task, message, est, clock))
    /\ step' = 2
    /\ UNCHANGED <<storeVars, messagingVars>>

ExampleUpdateProgress ==
    /\ step = 2
    /\ \E message \in {Undefined} \cup {Some(s) : s \in StatusTexts}, clock \in Clock :
        Return([op |-> "updateProgress", progress |-> 1, message |-> message],
               clock, updateProgress(task, 1, message, clock))
    /\ step' = 3
    /\ UNCHANGED <<storeVars, messagingVars>>

ExampleComplete ==
    /\ step = 3
    /\ \E resultMessage \in ValidMessages, clock \in Clock :
        Return([op |-> "complete", result |-> resultMessage],
               clock, complete(task, resultMessage, clock))
    /\ step' = 4
    /\ UNCHANGED <<storeVars, messagingVars>>

NextExample ==
    \/ ExampleCreateTask
    \/ ExampleStartProcessing
    \/ ExampleUpdateProgress
    \/ ExampleComplete

SpecExample == Init /\ [][NextExample]_vars

----------------------------------------------------------------------------
(* An external task store that keeps the last value written (the store is  *)
(* a collaborator of TaskManager, not part of it).  Each client reads the  *)
(* stored task, computes one transition from that snapshot with a          *)
(* TaskManager operation, and writes the result back.                      *)

\* The transitions the clients apply.
ClientCalls ==
    { [op |-> "startProcessing", message |-> Undefined, estimatedCompletion |-> Undefined],
      [op |-> "updateProgress", progress |-> 1, message |-> Some("Working")],
      [op |-> "updateProgress", progress |-> 2, message |-> Undefined],
      [op |-> "fail", error |-> "e1"],
      [op |-> "cancel", reason |-> Undefined],
      [op |-> "cancel", reason |-> Some("r1")] }
    \cup { [op |-> "complete", result |-> m] :
              m \in {r \in Messages : r.id \in {"msg_1", "msg_3"}} }

\* The TaskManager operation named by the call c, applied to t.
Apply(c, t, clock) ==
    CASE c.op = "startProcessing" ->
            startProcessing(t, c.message, c.estimatedCompletion, clock)
      [] c.op = "updateProgress" -> updateProgress(t, c.progress, c.message, clock)
      [] c.op = "complete" -> complete(t, c.result, clock)
      [] c.op = "fail" -> fail(t, c.error, clock)
      [] c.op = "cancel" -> cancel(t, c.reason, clock)

StoreAccept ==
    /\ ~Has(store, "status")
    /\ \E request \in Requests, agentId \in AgentIds, id \in TaskIds, clock \in Clock :
        /\ store' = createTask(request, agentId, id, clock)
        /\ now' = clock
    /\ UNCHANGED <<writers, log, callerVars, step, messagingVars>>

ClientRead(w) ==
    /\ Has(store, "status")
    /\ writers[w].pc \in {"idle", "written"}
    /\ Len(log) + Cardinality({v \in Writers : writers[v].pc \in {"read", "computed"}})
            < MaxWrites
    /\ writers' = [writers EXCEPT ![w] = [pc |-> "read", snap |-> store]]
    /\ UNCHANGED <<now, store, log, callerVars, step, messagingVars>>

ClientCompute(w) ==
    /\ writers[w].pc = "read"
    /\ \E c \in ClientCalls, clock \in Clock :
        LET res == Apply(c, writers[w].snap, clock)
        IN  /\ writers' = [writers EXCEPT ![w] =
                    IF res.ok
                    THEN [pc |-> "computed", snap |-> writers[w].snap, call |-> c,
                          stale |-> (store # writers[w].snap), result |-> res.value]
                    ELSE [pc |-> "threw", snap |-> writers[w].snap, call |-> c,
                          stale |-> (store # writers[w].snap)]]
            /\ now' = clock
    /\ UNCHANGED <<store, log, callerVars, step, messagingVars>>

ClientWrite(w) ==
    /\ writers[w].pc = "computed"
    /\ store' = writers[w].result
    /\ writers' = [writers EXCEPT ![w].pc = "written"]
    /\ log' = Append(log, w)
    /\ UNCHANGED <<now, callerVars, step, messagingVars>>

NextStore ==
    \/ StoreAccept
    \/ \E w \in Writers : ClientRead(w)
    \/ \E w \in Writers : ClientCompute(w)
    \/ \E w \in Writers : ClientWrite(w)

SpecStore == Init /\ [][NextStore]_vars

----------------------------------------------------------------------------
(* A task store that serializes the updates of a task: it applies each     *)
(* update to the task it holds at that moment and keeps the task returned, *)
(* or the task it held when the operation throws.                          *)

SerialCalls ==
    { [op |-> "startProcessing", message |-> Undefined, estimatedCompletion |-> Undefined],
      [op |-> "updateProgress", progress |-> 1, message |-> Some("Working")],
      [op |-> "cancel", reason |-> Undefined],
      [op |-> "cancel", reason |-> Some("r1")] }

Serialized ==
    /\ Has(store, "status")
    /\ Len(log) < MaxSerial
    /\ \E c \in SerialCalls, clock \in Clock :
        LET res == Apply(c, store, clock)
        IN  /\ store' = IF res.ok THEN res.value ELSE store
            /\ log' = Append(log, [call |-> c, status |-> store.status, ok |-> res.ok])
            /\ now' = clock
    /\ UNCHANGED <<writers, callerVars, step, messagingVars>>

NextSerial ==
    \/ StoreAccept
    \/ Serialized

SpecSerial == Init /\ [][NextSerial]_vars

----------------------------------------------------------------------------
(* TaskUtils on an array of tasks the caller owns.  `list` keeps the array *)
(* as it was when passed, the same array after the call, what the call     *)
(* returned, and whether the returned array is the array passed.           *)

\* tasks.filter(...): a new array of the tasks with that status, in order
filterByStatus(tasks, status) ==
    LET matches(t) == t.status = status
    IN  SelectSeq(tasks, matches)

\* The comparator of sortByCreatedAt
compareCreatedAt(a, b, descending) ==
    IF descending THEN b.createdAt - a.createdAt ELSE a.createdAt - b.createdAt

\* Array.prototype.sort with that comparator (stable): each task goes in
\* front of the first task already placed that compares greater than it
RECURSIVE sortByCreatedAt(_, _)
sortByCreatedAt(tasks, descending) ==
    IF Len(tasks) <= 1 THEN tasks
    ELSE LET front == sortByCreatedAt(SubSeq(tasks, 1, Len(tasks) - 1), descending)
             last == tasks[Len(tasks)]
             greater == {i \in 1..Len(front) : compareCreatedAt(front[i], last, descending) > 0}
             at == IF greater = {} THEN Len(front) + 1
                   ELSE CHOOSE i \in greater : \A j \in greater : i <= j
         IN  SubSeq(front, 1, at - 1) \o <<last>> \o SubSeq(front, at, Len(front))

\* The tasks a caller may hold: created at different times, queued or cancelled
ListedTasks ==
    LET request == CHOOSE r \in Requests : r.priority = "normal" /\ ~Has(r, "metadata")
        created == { createTask(request, agentId, id, clock) :
                        agentId \in AgentIds, id \in {"task_1", "task_2", "task_3"},
                        clock \in 0..2 }
    IN  created \cup { cancel(t, Undefined, 2).value : t \in created }

DistinctIds(tasks) ==
    \A i, j \in 1..Len(tasks) : tasks[i].id = tasks[j].id => i = j

Collect ==
    /\ list = NoList
    /\ \E n \in 0..MaxListed :
          \E tasks \in {l \in [1..n -> ListedTasks] : DistinctIds(l)} :
              list' = [op |-> "collect", passed |-> tasks, array |-> tasks,
                       returned |-> tasks, same |-> TRUE]
    /\ UNCHANGED <<now, callerVars, step, storeVars, builderVars, canonVars, signVars>>

\* const result = TaskUtils.filterByStatus(array, status)
FilterByStatus ==
    /\ list # NoList
    /\ \E status \in {QUEUED, CANCELLED, COMPLETED} :
          list' = [op |-> "filterByStatus", passed |-> list.array, array |-> list.array,
                   returned |-> filterByStatus(list.array, status), same |-> FALSE]
    /\ UNCHANGED <<now, callerVars, step, storeVars, builderVars, canonVars, signVars>>

\* const result = TaskUtils.sortByCreatedAt(array, descending): tasks.sort
\* sorts the array passed where it is and returns that array
SortByCreatedAt ==
    /\ list # NoList
    /\ \E descending \in {Undefined, Some(TRUE), Some(FALSE)} :
          LET sorted == sortByCreatedAt(list.array,
                                        IF IsSome(descending) THEN descending[1] ELSE TRUE)
          IN  list' = [op |-> "sortByCreatedAt", passed |-> list.array, array |-> sorted,
                       returned |-> sorted, same |-> TRUE]
    /\ UNCHANGED <<now, callerVars, step, storeVars, builderVars, canonVars, signVars>>

NextList ==
    \/ Collect
    \/ FilterByStatus
    \/ SortByCreatedAt

SpecList == Init /\ [][NextList]_vars

----------------------------------------------------------------------------
(* Properties of the task lifecycle *)

Called(op) == call.op = op
\* the last call was a transition applied to a task, and `given` is that task
Transition == Has(given, "status") /\ call.op \notin QueryNames

LegalTransitions ==
    { <<QUEUED, PROCESSING>>, <<PROCESSING, PROCESSING>>, <<PROCESSING, COMPLETED>>,
      <<PROCESSING, FAILED>>, <<QUEUED, CANCELLED>>, <<PROCESSING, CANCELLED>> }

\* C1: no TaskManager operation applied to a completed, failed or cancelled
\* task returns a task whose status, result or error differs from it.
TerminalOutcomeKept ==
    (Transition /\ isCompleted(given) /\ outcome = "task") =>
        /\ task.status = given.status
        /\ Get(task, "result") = Get(given, "result")
        /\ Get(task, "error") = Get(given, "error")

\* C2: a status change of a queued or processing task succeeds only when it
\* is one of the legal transitions; every other one is rejected.
OnlyLegalStatusChanges ==
    (Transition /\ isActive(given) /\ outcome = "task" /\ task.status # given.status) =>
        <<given.status, task.status>> \in LegalTransitions

\* C3: an update applied to a task in a terminal status is surfaced as an
\* error and the task passed in is what the caller still holds.
TerminalUpdateIsError ==
    (Transition /\ isCompleted(given)) => (outcome = "error" /\ task = given)

\* C4: a completed task carries a result and a failed task carries an error.
TerminalOutcomeRecorded ==
    HasTask =>
        /\ task.status = COMPLETED => Has(task, "result")
        /\ task.status = FAILED => Has(task, "error")

\* C6: updateProgress never rejects; the returned progress is the argument
\* clamped to [0, 1].
ProgressClamped ==
    Called("updateProgress") =>
        /\ outcome = "task"
        /\ task.progress = (IF call.progress < 0 THEN 0
                            ELSE IF call.progress > PROGRESS_MAX THEN PROGRESS_MAX
                            ELSE call.progress)

ProgressClampedWitness ==
    /\ Called("updateProgress") /\ call.progress = 3 /\ outcome = "task"
    /\ task.progress = PROGRESS_MAX

\* C7: a task returned by createTask is queued, has createdAt = updatedAt and
\* has no progress, result or error.
CreatedTaskIsQueued ==
    Called("createTask") =>
        /\ task.status = QUEUED
        /\ task.createdAt = task.updatedAt
        /\ ~Has(task, "progress") /\ ~Has(task, "result") /\ ~Has(task, "error")

CreatedTaskWitness ==
    Called("createTask") /\ task.status = QUEUED /\ task.createdAt = 1 /\ now = 1

\* C8: a field the caller supplied no value for keeps its previous value:
\* the message across updateProgress without a message, the message and
\* estimatedCompletion across startProcessing without them.
UnsuppliedFieldsKept ==
    /\ (Called("updateProgress") /\ outcome = "task" /\ call.message = Undefined) =>
            Get(task, "message") = Get(given, "message")
    /\ (Called("startProcessing") /\ outcome = "task" /\ call.message = Undefined) =>
            Get(task, "message") = Get(given, "message")
    /\ (Called("startProcessing") /\ outcome = "task"
            /\ call.estimatedCompletion = Undefined) =>
            Get(task, "estimatedCompletion") = Get(given, "estimatedCompletion")

\* C9 (as claimed): cancel with a reason records the reason as message and
\* as error; cancel without a reason records 'Task cancelled' and no error.
CancelRecordsReason ==
    Called("cancel") =>
        /\ outcome = "task" /\ task.status = CANCELLED
        /\ IsSome(call.reason) =>
               (Get(task, "message") = call.reason /\ Get(task, "error") = call.reason)
        /\ call.reason = Undefined =>
               (Get(task, "message") = Some("Task cancelled") /\ ~Has(task, "error"))

\* C9 (amended): cancel with a non-empty reason records the reason as message
\* and as error; with an empty reason the message is 'Task cancelled' and the
\* error is the empty string; without a reason the message is 'Task
\* cancelled' and the task has no error.
CancelRecordsNonEmptyReason ==
    Called("cancel") =>
        /\ outcome = "task" /\ task.status = CANCELLED
        /\ (IsSome(call.reason) /\ call.reason # Some("")) =>
               (Get(task, "message") = call.reason /\ Get(task, "error") = call.reason)
        /\ call.reason = Some("") =>
               (Get(task, "message") = Some("Task cancelled") /\ Get(task, "error") = Some(""))
        /\ call.reason = Undefined =>
               (Get(task, "message") = Some("Task cancelled") /\ ~Has(task, "error"))

CancelWitness ==
    /\ Called("cancel") /\ call.reason = Some("r1") /\ outcome = "task"
    /\ task.status = CANCELLED /\ Get(task, "error") = Some("r1")

\* C5: in the README's example the task is queued after createTask,
\* processing with progress 0 after startProcessing, processing with
\* progress 0.5 after updateProgress(0.5), and after complete(resultMessage)
\* it is completed with progress 1, result = resultMessage and no error.
ExampleOutcome ==
    /\ step >= 1 => outcome = "task"
    /\ step = 1 => task.status = QUEUED
    /\ step = 2 => (task.status = PROCESSING /\ Get(task, "progress") = Some(0))
    /\ step = 3 => (task.status = PROCESSING /\ Get(task, "progress") = Some(1))
    /\ step = 4 =>
        /\ task.status = COMPLETED
        /\ Get(task, "progress") = Some(PROGRESS_MAX)
        /\ Get(task, "result") = Some(call.result)
        /\ ~Has(task, "error")

ExampleWitness ==
    /\ step = 4 /\ Called("complete") /\ given.status = PROCESSING /\ given.progress = 1
    /\ task.status = COMPLETED /\ task.result = call.result

\* The properties a call's update object supplies.
Supplied(c) ==
    CASE c.op = "startProcessing" -> {"status", "progress", "message", "estimatedCompletion"}
      [] c.op = "updateProgress" -> {"progress", "message"}
      [] c.op = "complete" -> {"status", "progress", "result", "message"}
      [] c.op = "fail" -> {"status", "error", "message"}
      [] c.op = "cancel" -> {"status", "message", "error"}

TaskKeys ==
    {"id", "status", "progress", "message", "result", "error", "createdAt", "updatedAt",
     "estimatedCompletion", "metadata"}

\* the last two writes to the store were w's and, before it, o's, both
\* computed from the same snapshot
WroteLastFromSameSnapshot(w, o) ==
    /\ w # o
    /\ writers[w].pc = "written" /\ writers[o].pc = "written"
    /\ writers[w].snap = writers[o].snap
    /\ Len(log) >= 2 /\ log[Len(log)] = w /\ log[Len(log) - 1] = o

\* C10: when two transitions computed from the same snapshot are both
\* written to the store, the stored task is the one written last: outside
\* the fields that transition supplied it equals the snapshot, so the other
\* transition's changes are gone; and no transition given valid arguments
\* reports an error, however stale its snapshot.
LastWriteWins ==
    /\ \A w \in Writers, o \in Writers :
          WroteLastFromSameSnapshot(w, o) =>
            /\ store = writers[w].result
            /\ \A k \in TaskKeys \ (Supplied(writers[w].call) \cup {"updatedAt"}) :
                  Get(store, k) = Get(writers[w].snap, k)
    /\ \A w \in Writers :
          writers[w].pc = "threw" =>
            (writers[w].call.op = "complete" /\ ~SNAPMessageSchemaOk(writers[w].call.result))

LastWriteWinsWitness ==
    \E w \in Writers, o \in Writers :
        /\ WroteLastFromSameSnapshot(w, o)
        /\ writers[o].call.op = "updateProgress" /\ writers[o].result.progress = 1
        /\ writers[w].call.op = "cancel" /\ writers[w].stale
        /\ store.status = CANCELLED /\ ~Has(store, "progress")

\* C11: a derived query leaves the task it is given as it was and returns a
\* boolean, a number, a time or null, never a task: the caller still holds
\* the task it passed, also when isExpired answered true.
QueriesArePassive ==
    call.op \in QueryNames =>
        /\ task = given
        /\ outcome = "answer" /\ answer.of = call.op
        /\ call.op \in {"isActive", "isCompleted", "isExpired"} => answer.value \in BOOLEAN
        /\ call.op = "getDuration" => answer.value \in Int
        /\ call.op = "estimateCompletion" =>
              (answer.value = Undefined \/ answer.value[1] \in Int)

QueriesArePassiveWitness ==
    /\ Called("isExpired") /\ answer.of = "isExpired" /\ answer.value = TRUE
    /\ task = given /\ isActive(task)

\* C25: of isActive and isCompleted exactly one is true of every task:
\* isActive of the queued and the processing ones, isCompleted of the
\* completed, the failed and the cancelled ones.
ActiveOrCompleted ==
    HasTask =>
        /\ isActive(task) # isCompleted(task)
        /\ isActive(task) <=> task.status \in {QUEUED, PROCESSING}
        /\ isCompleted(task) <=> task.status \in {COMPLETED, FAILED, CANCELLED}
        /\ Called("isActive") => answer.value = (task.status \in {QUEUED, PROCESSING})
        /\ Called("isCompleted") =>
              answer.value = (task.status \in {COMPLETED, FAILED, CANCELLED})

ActiveOrCompletedWitness ==
    /\ Called("isCompleted") /\ answer.value = TRUE /\ task.status = CANCELLED

\* C26: isExpired answers true exactly when the task's metadata carries a
\* timeout and the seconds since createdAt exceed it, whatever the timeout,
\* 0 included; and the timeout of the create request is the one the task's
\* metadata carries.
Carried(t) == Has(t, "metadata") /\ Has(t.metadata, "timeout")

ExpiredExactlyOnTimeout ==
    /\ Called("isExpired") =>
          answer.value = (/\ Carried(task)
                          /\ (now - task.createdAt) * SecondsPerTick > task.metadata.timeout)
    /\ (Called("createTask") /\ Has(call.request, "timeout")) =>
          (Carried(task) /\ task.metadata.timeout = call.request.timeout)

\* C28: a transition leaves id and createdAt as they were and sets updatedAt
\* to the time it read from the clock, so createdAt <= updatedAt in every
\* task.
TimestampsKept ==
    /\ HasTask => task.createdAt <= task.updatedAt
    /\ (Transition /\ outcome = "task") =>
          /\ task.id = given.id
          /\ task.createdAt = given.createdAt
          /\ task.updatedAt = now
          /\ given.updatedAt <= task.updatedAt

TimestampsKeptWitness ==
    /\ Transition /\ outcome = "task" /\ Called("updateTask")
    /\ task.createdAt = 0 /\ given.updatedAt = 0 /\ task.updatedAt = 1

ProgressInRange ==
    /\ (HasTask /\ Has(task, "progress")) =>
          (task.progress >= 0 /\ task.progress <= PROGRESS_MAX)
    /\ (Called("updateTask") /\ Has(call.update, "progress")
            /\ (call.update.progress[1] < 0 \/ call.update.progress[1] > PROGRESS_MAX)) =>
          (outcome = "error" /\ task = given)

ProgressInRangeWitness ==
    /\ Called("updateTask") /\ Has(call.update, "progress")
    /\ call.update.progress[1] > PROGRESS_MAX
    /\ outcome = "error" /\ task = given /\ Has(task, "progress")

\* the last two updates the serializing store applied were a progress update
\* and a cancellation of a task that was processing, first and second in order
LastTwo(first, second) ==
    /\ Len(log) >= 2
    /\ log[Len(log) - 1].status = PROCESSING
    /\ log[Len(log) - 1].call.op = first /\ log[Len(log) - 1].ok
    /\ log[Len(log)].call.op = second /\ log[Len(log)].ok

\* C32: when the store serializes a progress update and a cancellation of a
\* processing task, in either order, the task it holds afterwards is
\* cancelled and its error is the one the cancellation recorded.
SerializedCancelWins ==
    /\ LastTwo("updateProgress", "cancel") =>
          /\ store.status = CANCELLED
          /\ Get(store, "error") = log[Len(log)].call.reason
    /\ LastTwo("cancel", "updateProgress") =>
          /\ store.status = CANCELLED
          /\ Get(store, "error") = log[Len(log) - 1].call.reason

SerializedCancelWitness ==
    /\ LastTwo("cancel", "updateProgress")
    /\ log[Len(log) - 1].call.reason = Some("r1")
    /\ store.status = CANCELLED /\ Get(store, "error") = Some("r1")
    /\ store.progress = 1

\* C33: updateProgress leaves status, result and error as they were; a
\* queued task stays queued and a processing task stays processing.
ProgressKeepsOutcome ==
    (Called("updateProgress") /\ outcome = "task") =>
        /\ task.status = given.status
        /\ Get(task, "result") = Get(given, "result")
        /\ Get(task, "error") = Get(given, "error")

ProgressKeepsOutcomeWitness ==
    /\ Called("updateProgress") /\ outcome = "task"
    /\ given.status = QUEUED /\ task.status = QUEUED
    /\ task.progress = 1 /\ ~Has(given, "progress")

\* C34: the agentId, priority, timeout and callback that createTask put in
\* the metadata are the same after every transition, one by updateTask with
\* a metadata property included.
CreationMetadata == {"agentId", "priority", "timeout", "callback"}

CreationMetadataKept ==
    (Transition /\ outcome = "task") =>
        /\ Has(task, "metadata")
        /\ \A k \in CreationMetadata : Get(task.metadata, k) = Get(given.metadata, k)

----------------------------------------------------------------------------
(* Messages: identity references, parts, payments and the zod schemas of   *)
(* types.ts.  A schema's parse returns the value restricted to the keys    *)
(* the schema declares, or throws a ZodError.                              *)

AgentA == [id |-> "snap:agent:11111111-1111-4111-8111-111111111111"]
AgentB == [id |-> "snap:agent:22222222-2222-4222-8222-222222222222", publicKey |-> "pk_b"]
AgentMalformed == [id |-> "snap:agent:B"]
UserU == [id |-> "snap:user:33333333-3333-4333-8333-333333333333", publicKey |-> "pk_u"]

\* The strings in use that the id patterns, z.string().url() and
\* z.string().datetime() accept
AgentIdPattern == {AgentA.id, AgentB.id}
UserIdPattern == {UserU.id}
IsUrl(s) == s \in {"https://files.example/a"}
IsDatetime(s) == s \in {"2026-01-01T00:00:00.000Z", "2026-01-02T00:00:00.000Z"}

Restrict(obj, keys) == [k \in DOMAIN obj \cap keys |-> obj[k]]

\* [0-9a-f]{n}: the n characters of s from first on are lowercase hex digits
HexDigits == <<"0", "1", "2", "3", "4", "5", "6", "7",
               "8", "9", "a", "b", "c", "d", "e", "f">>

IsHex(s, first, n) ==
    \A i \in first..(first + n - 1) :
        \E d \in 1..16 : SubSeq(s, i, i) = HexDigits[d]

\* /^snap:agent:[0-9a-f]{8}-[0-9a-f]{4}-[0-9a-f]{4}-[0-9a-f]{4}-[0-9a-f]{12}$/
AgentIdRegex(s) ==
    /\ Len(s) = 47
    /\ SubSeq(s, 1, 11) = "snap:agent:"
    /\ IsHex(s, 12, 8) /\ SubSeq(s, 20, 20) = "-"
    /\ IsHex(s, 21, 4) /\ SubSeq(s, 25, 25) = "-"
    /\ IsHex(s, 26, 4) /\ SubSeq(s, 30, 30) = "-"
    /\ IsHex(s, 31, 4) /\ SubSeq(s, 35, 35) = "-"
    /\ IsHex(s, 36, 12)

validateAgentId(id) == AgentIdRegex(id)

AgentIDSchemaOk(x) ==
    /\ Has(x, "id") /\ AgentIdRegex(x.id)
    /\ Has(x, "registry") => IsUrl(x.registry)

UserIDSchemaOk(x) ==
    /\ Has(x, "id") /\ x.id \in UserIdPattern
    /\ Has(x, "publicKey")

\* z.union([AgentIDSchema, UserIDSchema]): the first schema that accepts
IdentityOk(x) == AgentIDSchemaOk(x) \/ UserIDSchemaOk(x)

IdentityParse(x) ==
    IF AgentIDSchemaOk(x) THEN Restrict(x, {"id", "publicKey", "registry"})
    ELSE Restrict(x, {"id", "publicKey", "name", "metadata"})

PartTypes == {"text", "data", "file", "image", "audio", "video"}
MediaTypes == {"file", "image", "audio", "video"}

MimeTypeOk(type, mimeType) ==
    CASE type = "image" -> mimeType \in {"image/jpeg", "image/png", "image/gif", "image/webp"}
      [] type = "audio" -> mimeType \in {"audio/mpeg", "audio/wav", "audio/ogg", "audio/webm"}
      [] type = "video" -> mimeType \in {"video/mp4", "video/webm", "video/quicktime"}
      [] OTHER -> TRUE

ContentKeys(type) ==
    CASE type = "file" -> {"uri", "bytes", "name", "mimeType", "size", "hash"}
      [] type = "image" -> {"uri", "bytes", "mimeType", "width", "height", "alt"}
      [] type = "audio" -> {"uri", "bytes", "mimeType", "duration", "sampleRate"}
      [] type = "video" -> {"uri", "bytes", "mimeType", "duration", "width", "height", "frameRate"}

\* .refine(data => data.uri || data.bytes)
UriOrBytes(content) ==
    \/ Has(content, "uri") /\ TruthyStr(content.uri)
    \/ Has(content, "bytes") /\ TruthyStr(content.bytes)

\* The content schema of a file, image, audio or video part accepting any content
MediaContentOkWithoutRefine(type, content) ==
    /\ Has(content, "uri") => IsUrl(content.uri)
    /\ Has(content, "mimeType") /\ MimeTypeOk(type, content.mimeType)
    /\ type = "file" => Has(content, "name")

MediaContentOk(type, content) ==
    /\ Has(content, "uri") => IsUrl(content.uri)
    /\ Has(content, "mimeType") /\ MimeTypeOk(type, content.mimeType)
    /\ type = "file" => Has(content, "name")
    /\ UriOrBytes(content)

PartSchemaOk(p) ==
    /\ Has(p, "type") /\ p.type \in PartTypes
    /\ Has(p, "content")
    /\ p.type = "text" =>
          /\ Has(p, "encoding") => p.encoding \in {"utf-8", "base64"}
          /\ (Has(p, "metadata") /\ Has(p.metadata, "format")) =>
                p.metadata.format \in {"plain", "markdown", "html"}
    /\ p.type = "data" =>
          ((Has(p, "metadata") /\ Has(p.metadata, "format")) =>
                p.metadata.format \in {"json", "xml", "yaml"})
    /\ p.type \in MediaTypes => MediaContentOk(p.type, p.content)

PartSchemaParse(p) ==
    LET keys == CASE p.type = "text" -> {"type", "content", "encoding", "metadata"}
                  [] p.type = "data" -> {"type", "content", "schema", "metadata"}
                  [] OTHER -> {"type", "content", "metadata"}
    IN  [k \in DOMAIN p \cap keys |->
            IF k = "content" /\ p.type \in MediaTypes
            THEN Restrict(p.content, ContentKeys(p.type)) ELSE p[k]]

PaymentSchemaOk(p) ==
    /\ Has(p, "amount") /\ p.amount > 0
    /\ Has(p, "currency") /\ p.currency = "SEMNET"
    /\ Has(p, "from") /\ IdentityOk(p.from)
    /\ Has(p, "to") /\ IdentityOk(p.to)
    /\ Has(p, "status") => p.status \in {"pending", "authorized", "executed", "failed"}

PaymentSchemaParse(p) ==
    [k \in DOMAIN p \cap {"amount", "currency", "from", "to", "reference", "memo", "status"} |->
        IF k \in {"from", "to"} THEN IdentityParse(p[k]) ELSE p[k]]

SNAPMessageKeys ==
    {"id", "version", "from", "to", "timestamp", "parts", "context", "payment",
     "metadata", "signature"}

SNAPMessageSchemaAccepts(m) ==
    /\ Has(m, "id")
    /\ Has(m, "version") => m.version \in {"1.0", "1.1"}
    /\ Has(m, "from") /\ IdentityOk(m.from)
    /\ Has(m, "to") => IdentityOk(m.to)
    /\ Has(m, "timestamp") /\ IsDatetime(m.timestamp)
    /\ Has(m, "parts") /\ Len(m.parts) >= 1
    /\ \A i \in 1..Len(m.parts) : PartSchemaOk(m.parts[i])
    /\ Has(m, "payment") => PaymentSchemaOk(m.payment)

\* SNAPMessageSchema.parse: the parsed message, or a thrown ZodError
SNAPMessageSchemaParse(m) ==
    IF ~SNAPMessageSchemaAccepts(m) THEN [ok |-> FALSE, error |-> "ZodError"]
    ELSE [ok |-> TRUE,
          value |-> [k \in (DOMAIN m \cap SNAPMessageKeys) \cup {"version"} |->
                        CASE k = "version" -> IF Has(m, "version") THEN m.version ELSE "1.1"
                          [] k \in {"from", "to"} -> IdentityParse(m[k])
                          [] k = "parts" ->
                                [i \in 1..Len(m.parts) |-> PartSchemaParse(m.parts[i])]
                          [] k = "payment" -> PaymentSchemaParse(m.payment)
                          [] OTHER -> m[k]]]

----------------------------------------------------------------------------
(* MessageBuilder: every method is the message the builder holds after it. *)

\* this.message.key = value
Assign(m, key, value) == [k \in DOMAIN m \cup {key} |-> IF k = key THEN value ELSE m[k]]

\* An object literal's properties, all present
Props(obj) == [k \in DOMAIN obj |-> Some(obj[k])]

\* The constructor: generateMessageId() and new Date().toISOString() are drawn
\* by the caller of the model.
MessageBuilder(from, messageId, dateIso) ==
    [id |-> messageId, version |-> "1.0", from |-> from, timestamp |-> dateIso,
     parts |-> <<>>]

to(m, recipient) == Assign(m, "to", recipient)

context(m, contextId) == Assign(m, "context", contextId)

payment(m, pay) == Assign(m, "payment", pay)

\* metadata() replacing the metadata set so far
metadataReplacing(m, md) == Assign(m, "metadata", md)

metadata(m, md) ==
    Assign(m, "metadata",
           Spread(IF Has(m, "metadata") THEN m.metadata ELSE [k \in {} |-> 0], Props(md)))

\* parts.unshift(part)
unshift(m, p) == Assign(m, "parts", <<p>> \o m.parts)

\* this.message.parts.push(part)
push(m, p) == Assign(m, "parts", Append(m.parts, p))

\* options?.key && {...}
Option(options, key) ==
    IF IsSome(options) /\ Has(options[1], key) /\ TruthyStr(options[1][key])
    THEN Some(options[1][key]) ELSE Undefined

\* ...(cond && {metadata: {...}}) over the option keys given
MetadataOf(cond, options, keys) ==
    IF cond
    THEN ("metadata" :> Some(Restrict(options[1],
                                      {k \in keys : IsSome(Option(options, k))})))
    ELSE [k \in {} |-> Undefined]

text(m, content, options) ==
    push(m, Spread(Spread([type |-> "text", content |-> content],
                          IF IsSome(Option(options, "encoding"))
                          THEN ("encoding" :> Option(options, "encoding"))
                          ELSE [k \in {} |-> Undefined]),
                   MetadataOf(IsSome(options), options, {"format", "language"})))

data(m, content, options) ==
    push(m, Spread(Spread([type |-> "data", content |-> content],
                          IF IsSome(options) /\ Has(options[1], "schema")
                          THEN ("schema" :> Some(options[1].schema))
                          ELSE [k \in {} |-> Undefined]),
                   MetadataOf(IsSome(Option(options, "format")), options, {"format"})))

file(m, content, options) ==
    push(m, Spread([type |-> "file", content |-> content],
                   MetadataOf(IsSome(Option(options, "description")), options,
                              {"description"})))

image(m, content, options) ==
    push(m, Spread([type |-> "image", content |-> content],
                   MetadataOf(IsSome(Option(options, "caption")), options, {"caption"})))

audio(m, content, options) ==
    push(m, Spread([type |-> "audio", content |-> content],
                   MetadataOf(IsSome(options), options, {"title", "artist"})))

video(m, content, options) ==
    push(m, Spread([type |-> "video", content |-> content],
                   MetadataOf(IsSome(options), options, {"title", "description"})))

part(m, p) == push(m, p)

id(m, messageId) == Assign(m, "id", messageId)

timestamp(m, dateIso) == Assign(m, "timestamp", dateIso)

\* build() returning the accumulated message as it is
buildUnvalidated(m) == [ok |-> TRUE, value |-> m]

\* build(): the validated message, or the error thrown
build(m) ==
    IF ~Has(m, "parts") \/ Len(m.parts) = 0
    THEN [ok |-> FALSE, error |-> "Error: Message must have at least one part"]
    ELSE SNAPMessageSchemaParse(m)

\* buildForSigning() that does not go through build()
buildForSigningUnvalidated(m) ==
    [ok |-> TRUE, value |-> Restrict(m, DOMAIN m \ {"signature"})]

\* const { signature, ...messageForSigning } = this.build()
buildForSigning(m) ==
    LET message == build(m)
    IN  IF ~message.ok THEN message
        ELSE [ok |-> TRUE,
              value |-> Restrict(message.value, DOMAIN message.value \ {"signature"})]

\* validate applying the version default to every message
validateDefaultingVersion(message) ==
    LET parsed == SNAPMessageSchemaParse(message)
    IN  IF ~parsed.ok THEN parsed
        ELSE [ok |-> TRUE, value |-> [parsed.value EXCEPT !.version = "1.1"]]

\* MessageUtils.validate
validate(message) == SNAPMessageSchemaParse(message)

\* MessageUtils.hasContext: !!message.context
hasContext(message) == Has(message, "context") /\ TruthyStr(message.context)

\* reply() always pinning the conversation to the original message's id
replyPinningId(originalMessage, from, messageId, dateIso) ==
    metadata(context(to(MessageBuilder(from, messageId, dateIso), originalMessage.from),
                     originalMessage.id),
             [replyTo |-> originalMessage.id, type |-> "reply"])

\* MessageUtils.reply: originalMessage.context || originalMessage.id
reply(originalMessage, from, messageId, dateIso) ==
    metadata(context(to(MessageBuilder(from, messageId, dateIso), originalMessage.from),
                     IF Has(originalMessage, "context") /\ TruthyStr(originalMessage.context)
                     THEN originalMessage.context ELSE originalMessage.id),
             [replyTo |-> originalMessage.id, type |-> "reply"])

PartAdding == {"text", "data", "file", "image", "audio", "video", "part"}
Setters == {"to", "context", "payment", "metadata", "id", "timestamp"}

\* The builder's message after the chained call c
Chain(m, c) ==
    CASE c.op = "to" -> to(m, c.recipient)
      [] c.op = "context" -> context(m, c.contextId)
      [] c.op = "payment" -> payment(m, c.payment)
      [] c.op = "metadata" -> metadata(m, c.metadata)
      [] c.op = "id" -> id(m, c.messageId)
      [] c.op = "timestamp" -> timestamp(m, c.timestamp)
      [] c.op = "text" -> text(m, c.content, c.options)
      [] c.op = "data" -> data(m, c.content, c.options)
      [] c.op = "file" -> file(m, c.content, c.options)
      [] c.op = "image" -> image(m, c.content, c.options)
      [] c.op = "audio" -> audio(m, c.content, c.options)
      [] c.op = "video" -> video(m, c.content, c.options)
      [] c.op = "part" -> part(m, c.part)

----------------------------------------------------------------------------
(* A caller of the builder: it makes one builder, chains calls on it and   *)
(* builds.  The arguments are typed as the methods declare them.           *)

Senders == {AgentA, AgentMalformed}
Recipients == {AgentB, AgentMalformed}
ContextIds == {"ctx_1"}
Payments ==
    { [amount |-> a, currency |-> "SEMNET", from |-> AgentB, to |-> AgentA] : a \in {-1, 0, 5} }
Metadatas == {[k1 |-> "v1"], [k2 |-> "v2"]}
MessageIds == {"msg_custom"}
Timestamps == {"2026-01-02T00:00:00.000Z", "tomorrow"}
TextCalls ==
    { [op |-> "text", content |-> "hello", options |-> Undefined],
      [op |-> "text", content |-> "# Title", options |-> Some([format |-> "markdown"])] }
DataContents == {[answer |-> "42"]}
FileContents ==
    { [name |-> "a.txt", mimeType |-> "text/plain", uri |-> "https://files.example/a"],
      [name |-> "a.txt", mimeType |-> "text/plain"] }
ImageContents == { [mimeType |-> "image/png", bytes |-> "aGk="], [mimeType |-> "image/png"] }
AudioContents ==
    { [mimeType |-> "audio/wav", uri |-> "https://files.example/a"], [mimeType |-> "audio/wav"] }
VideoContents == { [mimeType |-> "video/mp4", bytes |-> "aGk="], [mimeType |-> "video/mp4"] }
CustomParts ==
    { [type |-> "text", content |-> "raw", encoding |-> "base64"],
      [type |-> "file", content |-> [name |-> "b.bin", mimeType |-> "text/plain", bytes |-> ""]] }

\* generateMessageId() and new Date().toISOString() in the constructor
NewMessageId == "msg_new"
NewDateIso == "2026-01-01T00:00:00.000Z"

\* Messages received earlier, to reply to
Originals ==
    { [id |-> "msg_0", version |-> "1.1", from |-> AgentB, timestamp |-> NewDateIso,
       parts |-> <<[type |-> "text", content |-> "ping"]>>],
      [id |-> "msg_0", version |-> "1.1", from |-> UserU, timestamp |-> NewDateIso,
       parts |-> <<[type |-> "text", content |-> "ping"]>>, context |-> "ctx_0"],
      [id |-> "msg_0", version |-> "1.1", from |-> AgentB, timestamp |-> NewDateIso,
       parts |-> <<[type |-> "text", content |-> "ping"]>>, context |-> ""] }

Constructed == made.op # "none"

New ==
    \E from \in Senders :
        /\ ~Constructed
        /\ builder' = MessageBuilder(from, NewMessageId, NewDateIso)
        /\ made' = [op |-> "new", from |-> from]
        /\ UNCHANGED <<trace, built, kept, thread, taskVars, canonVars, signVars>>

Reply ==
    \E originalMessage \in Originals :
        /\ ~Constructed
        /\ builder' = reply(originalMessage, AgentA, NewMessageId, NewDateIso)
        /\ made' = [op |-> "reply", original |-> originalMessage, from |-> AgentA]
        /\ UNCHANGED <<trace, built, kept, thread, taskVars, canonVars, signVars>>

\* build() handing out the message the builder accumulates
returnedByReference(message, m) == m

\* A message build() returned, after a later call left m in the builder:
\* SNAPMessageSchema.parse made it a new object with new from, to, parts,
\* payment and metadata, and no builder method assigns into a value the two
\* share.
returned(message, m) == message

\* One chained call, of at most max on the builder
Chained(c, max) ==
    /\ Constructed
    /\ Len(trace) < max
    /\ builder' = Chain(builder, c)
    /\ trace' = Append(trace, c)
    /\ built' = NotBuilt
    /\ kept' = IF kept = NotKept THEN kept
               ELSE [kept EXCEPT !.message = returned(kept.message, Chain(builder, c))]
    /\ UNCHANGED <<made, thread, taskVars, canonVars, signVars>>

To == \E recipient \in Recipients : Chained([op |-> "to", recipient |-> recipient], MaxChained)

Context == \E contextId \in ContextIds : Chained([op |-> "context", contextId |-> contextId], MaxChained)

Payment == \E pay \in Payments : Chained([op |-> "payment", payment |-> pay], MaxChained)

Metadata == \E md \in Metadatas : Chained([op |-> "metadata", metadata |-> md], MaxChained)

Id == \E messageId \in MessageIds : Chained([op |-> "id", messageId |-> messageId], MaxChained)

Timestamp == \E dateIso \in Timestamps : Chained([op |-> "timestamp", timestamp |-> dateIso], MaxChained)

Text == \E c \in TextCalls : Chained(c, MaxChained)

Data ==
    \E content \in DataContents :
        Chained([op |-> "data", content |-> content, options |-> Undefined], MaxChained)

File ==
    \E content \in FileContents :
        Chained([op |-> "file", content |-> content, options |-> Undefined], MaxChained)

Image ==
    \E content \in ImageContents :
        Chained([op |-> "image", content |-> content,
                 options |-> Some([caption |-> "a picture"])], MaxChained)

Audio ==
    \E content \in AudioContents :
        Chained([op |-> "audio", content |-> content, options |-> Undefined], MaxChained)

Video ==
    \E content \in VideoContents :
        Chained([op |-> "video", content |-> content,
                 options |-> Some([title |-> "a film"])], MaxChained)

Part == \E p \in CustomParts : Chained([op |-> "part", part |-> p], MaxChained)

Build ==
    /\ Constructed
    /\ built' = [op |-> "build", result |-> build(builder)]
    /\ UNCHANGED <<builder, made, trace, kept, thread, taskVars, canonVars, signVars>>

BuildForSigning ==
    /\ Constructed
    /\ built' = [op |-> "buildForSigning", result |-> buildForSigning(builder)]
    /\ UNCHANGED <<builder, made, trace, kept, thread, taskVars, canonVars, signVars>>

NextBuilder ==
    \/ New
    \/ Reply
    \/ To
    \/ Context
    \/ Payment
    \/ Metadata
    \/ Id
    \/ Timestamp
    \/ Text
    \/ Data
    \/ File
    \/ Image
    \/ Audio
    \/ Video
    \/ Part
    \/ Build
    \/ BuildForSigning

SpecBuilder == Init /\ [][NextBuilder]_vars

----------------------------------------------------------------------------
(* A caller chaining the same calls in different orders: the calls made    *)
(* are kept in `trace`, and the orders are compared on the trace.          *)

OrderedMetadatas == {[k1 |-> "v1"], [k2 |-> "v2"], [k1 |-> "v3"]}

OrderedTo == \E recipient \in Recipients : Chained([op |-> "to", recipient |-> recipient], MaxOrdered)

OrderedContext == \E contextId \in ContextIds : Chained([op |-> "context", contextId |-> contextId], MaxOrdered)

OrderedPayment ==
    \E pay \in {p \in Payments : p.amount > 0} : Chained([op |-> "payment", payment |-> pay], MaxOrdered)

OrderedMetadata == \E md \in OrderedMetadatas : Chained([op |-> "metadata", metadata |-> md], MaxOrdered)

OrderedText == \E c \in TextCalls : Chained(c, MaxOrdered)

OrderedFile ==
    \E content \in {c \in FileContents : Has(c, "uri")} :
        Chained([op |-> "file", content |-> content, options |-> Undefined], MaxOrdered)

NextOrdered ==
    \/ New
    \/ OrderedTo
    \/ OrderedContext
    \/ OrderedPayment
    \/ OrderedMetadata
    \/ OrderedText
    \/ OrderedFile
    \/ Build

SpecOrdered == Init /\ [][NextOrdered]_vars

----------------------------------------------------------------------------
(* A caller that keeps the message one build() returned and goes on using  *)
(* the builder: one valid call of every method, build() and                *)
(* buildForSigning() again.                                                *)

LaterCalls ==
    { [op |-> "to", recipient |-> AgentB],
      [op |-> "context", contextId |-> "ctx_1"],
      [op |-> "payment",
       payment |-> [amount |-> 5, currency |-> "SEMNET", from |-> AgentB, to |-> AgentA]],
      [op |-> "metadata", metadata |-> [k1 |-> "v1"]],
      [op |-> "id", messageId |-> "msg_custom"],
      [op |-> "timestamp", timestamp |-> "2026-01-02T00:00:00.000Z"],
      [op |-> "text", content |-> "hello", options |-> Undefined],
      [op |-> "data", content |-> [answer |-> "42"], options |-> Undefined],
      [op |-> "file",
       content |-> [name |-> "a.txt", mimeType |-> "text/plain",
                    uri |-> "https://files.example/a"],
       options |-> Undefined],
      [op |-> "image", content |-> [mimeType |-> "image/png", bytes |-> "aGk="],
       options |-> Some([caption |-> "a picture"])],
      [op |-> "part", part |-> [type |-> "text", content |-> "raw", encoding |-> "base64"]] }

Later == \E c \in LaterCalls : Chained(c, MaxLater)

\* const message = builder.build(), and the caller keeps message
BuildAndKeep ==
    /\ Constructed
    /\ kept = NotKept
    /\ build(builder).ok
    /\ built' = [op |-> "build", result |-> build(builder)]
    /\ kept' = [op |-> "build", at |-> Len(trace), message |-> build(builder).value]
    /\ UNCHANGED <<builder, made, trace, thread, taskVars, canonVars, signVars>>

NextKept ==
    \/ New
    \/ Reply
    \/ Later
    \/ BuildAndKeep
    \/ Build
    \/ BuildForSigning

SpecKept == Init /\ [][NextKept]_vars

----------------------------------------------------------------------------
(* A conversation: a message arrives and passes MessageUtils.validate, and *)
(* the two parties answer in turn, each with                               *)
(* MessageUtils.reply(received, self).text('pong').build().                *)

\* isSNAPMessage: id is a string, version is '1.0', from and timestamp are
\* truthy and parts is a non-empty array
isSNAPMessage(obj) ==
    /\ Has(obj, "id")
    /\ Has(obj, "version") /\ obj.version = "1.0"
    /\ Has(obj, "from")
    /\ Has(obj, "timestamp") /\ TruthyStr(obj.timestamp)
    /\ Has(obj, "parts") /\ Len(obj.parts) > 0

\* The messages that arrive: with and without a version, an id and a
\* context that may be the empty string
Arriving ==
    LET base(messageId) ==
            [id |-> messageId, from |-> AgentB, timestamp |-> NewDateIso,
             parts |-> <<[type |-> "text", content |-> "ping"]>>]
        versioned(m) == {m, Assign(m, "version", "1.0"), Assign(m, "version", "1.1")}
        threaded(m) == {m, Assign(m, "context", "ctx_0"), Assign(m, "context", "")}
    IN  UNION { UNION { threaded(v) : v \in versioned(base(messageId)) } :
                    messageId \in {"msg_0", ""} }

\* generateMessageId() of the n-th reply
ReplyMessageId(n) == <<"msg_1", "msg_2", "msg_3", "msg_4", "msg_5">>[n]

Receive ==
    /\ thread = <<>>
    /\ \E received \in Arriving :
          /\ validate(received).ok
          /\ thread' = <<validate(received).value>>
    /\ UNCHANGED <<builder, made, trace, built, kept, taskVars, canonVars, signVars>>

ReplyInThread ==
    /\ Len(thread) \in 1..MaxReplies
    /\ \E from \in {AgentA, AgentB} :
          LET answered == build(text(reply(thread[Len(thread)], from,
                                           ReplyMessageId(Len(thread)), NewDateIso),
                                     "pong", Undefined))
          IN  /\ answered.ok
              /\ thread' = Append(thread, answered.value)
    /\ UNCHANGED <<builder, made, trace, built, kept, taskVars, canonVars, signVars>>

NextThread ==
    \/ Receive
    \/ ReplyInThread

SpecThread == Init /\ [][NextThread]_vars

----------------------------------------------------------------------------
(* Properties of the message builder *)

Built(op) == built.op = op
NoPartAdded == \A i \in 1..Len(trace) : trace[i].op \notin PartAdding

\* C12: build() on a builder to which no part was added throws and returns no
\* message, whatever setters were chained on it.
BuildWithoutPartsFails ==
    (Built("build") /\ NoPartAdded) =>
        (~built.result.ok /\ ~Has(built.result, "value"))

BuildWithoutPartsWitness ==
    /\ Built("build") /\ NoPartAdded /\ ~built.result.ok
    /\ Len(trace) = 2 /\ trace[1].op = "payment" /\ trace[2].op = "metadata"

IdPattern == AgentIdPattern \cup UserIdPattern

\* the conditions of the claim, on a message m
StructurallyValid(m) ==
    /\ Len(m.parts) >= 1
    /\ m.from.id \in IdPattern
    /\ Has(m, "to") => m.to.id \in IdPattern
    /\ \A i \in 1..Len(m.parts) :
          m.parts[i].type \in MediaTypes =>
              (Has(m.parts[i].content, "uri") \/ Has(m.parts[i].content, "bytes"))
    /\ Has(m, "payment") => m.payment.amount > 0

IsPartAdding(c) == c.op \in PartAdding
\* the part-adding calls made, in call order
PartCalls == SelectSeq(trace, IsPartAdding)
\* what a part-adding call asked for: the type and the content of a part
AskedType(c) == IF c.op = "part" THEN c.part.type ELSE c.op
AskedContent(c) == IF c.op = "part" THEN c.part.content ELSE c.content

\* C14: the parts of a built message are the parts of the part-adding calls,
\* one per call and in the order of the calls, whatever setters were chained
\* between them.
PartsInCallOrder ==
    (Built("build") /\ built.result.ok) =>
        /\ Len(built.result.value.parts) = Len(PartCalls)
        /\ \A i \in 1..Len(PartCalls) :
              /\ built.result.value.parts[i].type = AskedType(PartCalls[i])
              /\ built.result.value.parts[i].content = AskedContent(PartCalls[i])

PartsInCallOrderWitness ==
    /\ Built("build") /\ built.result.ok
    /\ Len(trace) = 3
    /\ trace[1].op = "file" /\ trace[2].op = "metadata" /\ trace[3].op = "text"
    /\ built.result.value.parts[1].type = "file"
    /\ built.result.value.parts[2].type = "text"

\* The orders in which the calls of the trace can be chained
Orders == {p \in [1..Len(trace) -> 1..Len(trace)] : \A i, j \in 1..Len(trace) : p[i] = p[j] => i = j}
Reordered(p) == [i \in 1..Len(trace) |-> trace[p[i]]]

KeepsPartOrder(p) ==
    \A i, j \in 1..Len(trace) :
        (i < j /\ IsPartAdding(trace[p[i]]) /\ IsPartAdding(trace[p[j]])) => p[i] < p[j]

DisjointMetadata ==
    \A i, j \in 1..Len(trace) :
        (i # j /\ trace[i].op = "metadata" /\ trace[j].op = "metadata") =>
            DOMAIN trace[i].metadata \cap DOMAIN trace[j].metadata = {}

EachSetterOnce ==
    \A i, j \in 1..Len(trace) :
        (i # j /\ trace[i].op \in {"to", "context", "payment"}) => trace[i].op # trace[j].op

RECURSIVE ChainAll(_, _)
ChainAll(m, cs) == IF Len(cs) = 0 THEN m ELSE ChainAll(Chain(m, Head(cs)), Tail(cs))

\* the builder as it was made
Made ==
    IF made.op = "reply" THEN reply(made.original, made.from, NewMessageId, NewDateIso)
    ELSE MessageBuilder(made.from, NewMessageId, NewDateIso)

SameResult(r1, r2) == r1.ok = r2.ok /\ (r1.ok => r1.value = r2.value)

\* C15 as stated: chaining the same to, context, payment and part-adding
\* calls and metadata calls with disjoint keys in another order that keeps
\* the part-adding calls in their order builds an equal message.
SetterOrderIrrelevant ==
    (Built("build") /\ DisjointMetadata) =>
        \A p \in Orders :
            KeepsPartOrder(p) => SameResult(build(ChainAll(Made, Reordered(p))), built.result)

\* C15 amended: ... when, besides, each of to, context and payment is called
\* at most once.
SingleSetterOrderIrrelevant ==
    (Built("build") /\ DisjointMetadata /\ EachSetterOnce) =>
        \A p \in Orders :
            KeepsPartOrder(p) => SameResult(build(ChainAll(Made, Reordered(p))), built.result)

SingleSetterOrderWitness ==
    /\ Built("build") /\ built.result.ok /\ DisjointMetadata /\ EachSetterOnce
    /\ Len(trace) = 3
    /\ trace[1].op = "metadata" /\ trace[2].op = "text" /\ trace[3].op = "metadata"

\* C16: buildForSigning() returns a message exactly when build() does, and
\* the message has the fields of build()'s, with the same values, except
\* signature.
ForSigningIsBuildWithoutSignature ==
    Built("buildForSigning") =>
        /\ built.result.ok = build(builder).ok
        /\ built.result.ok =>
              /\ DOMAIN built.result.value = DOMAIN build(builder).value \ {"signature"}
              /\ \A k \in DOMAIN built.result.value :
                    built.result.value[k] = build(builder).value[k]

ForSigningWitness ==
    /\ Built("buildForSigning") /\ built.result.ok
    /\ ~Has(built.result.value, "signature")
    /\ Has(built.result.value, "metadata") /\ Len(built.result.value.parts) = 1

\* C17: the builder reply() returns is addressed to the original's sender,
\* carries the original's context, or the original's id when it has none,
\* records the original's id as replyTo and holds no part; build() throws
\* on it as long as no part was added.
ReplySeedsBuilder ==
    made.op = "reply" =>
        /\ trace = <<>> =>
              /\ builder.to = made.original.from
              /\ builder.context = IF hasContext(made.original) THEN made.original.context
                                   ELSE made.original.id
              /\ builder.metadata.replyTo = made.original.id
              /\ Len(builder.parts) = 0
        /\ (Built("build") /\ NoPartAdded) => ~built.result.ok

ReplyWitness ==
    /\ made.op = "reply" /\ hasContext(made.original)
    /\ trace = <<>> /\ Built("build") /\ ~built.result.ok

----------------------------------------------------------------------------
(* JavaScript values as the canonicalizer sees them.  Every value is a     *)
(* node [t, s, n, kids]: t is its type, s the text of a string or boolean, *)
(* n the value of a number, kids the elements of an array or the own       *)
(* properties of an object as <<key, value>> entries in insertion order    *)
(* (the key of an array element is "").                                    *)

Node(t, s, n, kids) == [t |-> t, s |-> s, n |-> n, kids |-> kids]
Null == Node("null", "", 0, <<>>)
Undef == Node("undefined", "", 0, <<>>)
NaN == Node("NaN", "", 0, <<>>)
Bool(b) == Node("boolean", IF b THEN "true" ELSE "false", 0, <<>>)
Num(n) == Node("number", "", n, <<>>)
Str(s) == Node("string", s, 0, <<>>)
Arr(elements) == Node("array", "", 0, [i \in 1..Len(elements) |-> <<"", elements[i]>>])
Obj(entries) == Node("object", "", 0, entries)

\* Object.keys(obj)
Keys(obj) == {obj.kids[i][1] : i \in 1..Len(obj.kids)}
\* obj[key]
ValueOf(obj, key) == obj.kids[CHOOSE i \in 1..Len(obj.kids) : obj.kids[i][1] = key][2]

\* The keys in use, in the order Array.prototype.sort() gives strings
\* (UTF-16 code units)
KeysInOrder ==
    <<"a", "answer", "b", "c", "content", "context", "d", "e", "f", "format", "from", "id",
      "language", "metadata", "note", "parts", "score", "tags", "timestamp", "to", "type",
      "version">>

\* sortKeysRecursive sorting the keys of the outermost object only
sortKeysShallow(obj) ==
    IF obj.t # "object" THEN obj
    ELSE LET Own(key) == key \in Keys(obj)
             keys == SelectSeq(KeysInOrder, Own)
         IN  Obj([i \in 1..Len(keys) |-> <<keys[i], ValueOf(obj, keys[i])>>])

RECURSIVE sortKeysRecursive(_)
sortKeysRecursive(obj) ==
    IF obj.t \notin {"object", "array"} THEN obj
    ELSE IF obj.t = "array"
    THEN Arr([i \in 1..Len(obj.kids) |-> sortKeysRecursive(obj.kids[i][2])])
    ELSE LET Own(key) == key \in Keys(obj)
             keys == SelectSeq(KeysInOrder, Own)
         IN  Obj([i \in 1..Len(keys) |-> <<keys[i], sortKeysRecursive(ValueOf(obj, keys[i]))>>])

\* strings.join(",")
RECURSIVE Join(_)
Join(strings) ==
    IF Len(strings) = 0 THEN ""
    ELSE IF Len(strings) = 1 THEN strings[1]
    ELSE strings[1] \o "," \o Join(Tail(strings))

Quote(s) == "\"" \o s \o "\""

\* JSON.stringify of an array or object and of what it holds: NaN is written
\* as null, so is undefined inside an array, and a property whose value is
\* undefined is left out.
RECURSIVE stringify(_)
stringify(x) ==
    CASE x.t = "null" -> "null"
      [] x.t = "NaN" -> "null"
      [] x.t = "undefined" -> "null"
      [] x.t = "boolean" -> x.s
      [] x.t = "number" -> ToString(x.n)
      [] x.t = "string" -> Quote(x.s)
      [] x.t = "array" ->
            "[" \o Join([i \in 1..Len(x.kids) |-> stringify(x.kids[i][2])]) \o "]"
      [] x.t = "object" ->
            LET Defined(entry) == entry[2].t # "undefined"
                entries == SelectSeq(x.kids, Defined)
            IN  "{" \o Join([i \in 1..Len(entries) |->
                                Quote(entries[i][1]) \o ":" \o stringify(entries[i][2])])
                \o "}"

canonicalizeObject(obj) == stringify(sortKeysRecursive(obj))

\* MessageUtils.canonicalize
canonicalize(message) == canonicalizeObject(message)

----------------------------------------------------------------------------
(* A caller of the canonicalizer: it holds a value and the same value with *)
(* its keys inserted in another order, and canonicalizes both.             *)

Shapes ==
    { Obj(<< <<"b", Num(1)>>,
             <<"a", Obj(<< <<"d", Str("x")>>,
                           <<"c", Arr(<<Obj(<< <<"f", Bool(TRUE)>>, <<"e", Null>> >>)>>)>> >>)>> >>),
      Obj(<< <<"type", Str("text")>>, <<"content", Str("hi")>>,
             <<"metadata", Obj(<< <<"format", Str("plain")>>, <<"language", Str("en")>> >>)>> >>),
      Arr(<< Obj(<< <<"b", Undef>>, <<"a", NaN>> >>),
             Obj(<< <<"a", Num(1)>>, <<"b", Num(2)>> >>) >>) }

Orderings(n) == {p \in [1..n -> 1..n] : \A i, j \in 1..n : p[i] = p[j] => i = j}

\* The values structurally equal to x: the same properties, inserted in any
\* order, at every level
RECURSIVE Variants(_)
Variants(x) ==
    IF x.t \notin {"object", "array"} THEN {x}
    ELSE LET n == Len(x.kids)
             children == {w \in [1..n -> UNION {Variants(x.kids[i][2]) : i \in 1..n}] :
                            \A i \in 1..n : w[i] \in Variants(x.kids[i][2])}
             orders == IF x.t = "array" THEN {[i \in 1..n |-> i]} ELSE Orderings(n)
         IN  {Node(x.t, "", 0, [i \in 1..n |-> <<x.kids[p[i]][1], w[p[i]]>>]) :
                 p \in orders, w \in children}

Take ==
    /\ subject.t = "nothing"
    /\ \E shape \in Shapes : \E a \in Variants(shape) : subject' = a /\ shuffled' = a
    /\ UNCHANGED <<canon, taskVars, builderVars, signVars>>

Reinsert ==
    /\ subject.t # "nothing"
    /\ \E b \in Variants(subject) : shuffled' = b
    /\ canon' = NotCanonicalized
    /\ UNCHANGED <<subject, taskVars, builderVars, signVars>>

Canonicalize ==
    /\ subject.t # "nothing"
    /\ canon' = [done |-> TRUE, a |-> canonicalizeObject(subject), b |-> canonicalizeObject(shuffled)]
    /\ UNCHANGED <<subject, shuffled, taskVars, builderVars, signVars>>

NextCanonical ==
    \/ Take
    \/ Reinsert
    \/ Canonicalize

SpecCanonical == Init /\ [][NextCanonical]_vars

\* C18: a value and the same value with its keys inserted in another order,
\* at any level and inside arrays, have the same canonical string.
CanonicalIgnoresKeyOrder == canon.done => canon.a = canon.b

CanonicalWitness ==
    /\ canon.done /\ subject # shuffled
    /\ subject.t = "object" /\ Len(subject.kids) = 2
    /\ subject.kids[1][1] = "b" /\ shuffled.kids[1][1] = "b"
    /\ subject.kids[2][2].kids[1][1] = "d" /\ shuffled.kids[2][2].kids[1][1] = "d"

----------------------------------------------------------------------------
(* Identity: keys, signatures and their base64 text.  Ed25519 (tweetnacl)  *)
(* is taken as ideal: a signature verifies under the public key of the     *)
(* pair that made it, over the bytes it was made for, and nothing else     *)
(* verifies.  A byte array is [kind, seed, text, intact]: a public key     *)
(* ("pk", 32 bytes) or secret key ("sk", 64 bytes) of the pair drawn with  *)
(* seed, the UTF-8 bytes of a text ("utf8"), or a signature ("sig", 64     *)
(* bytes) by the pair over a text, intact or with a byte flipped; "none"   *)
(* is the empty array, and "undefined" stands for a value that is not a    *)
(* string where a base64 text was expected.                                *)

Seeds == {1, 2}
Bytes(kind, seed, string, intact) ==
    [kind |-> kind, seed |-> seed, text |-> string, intact |-> intact]

\* bytes.length of a key or signature
ByteLength(bytes) ==
    IF bytes.kind = "pk" THEN 32 ELSE IF bytes.kind = "none" THEN 0 ELSE 64

\* nacl.sign.keyPair()
keyPair(seed) ==
    [publicKey |-> Bytes("pk", seed, "", TRUE), secretKey |-> Bytes("sk", seed, "", TRUE)]

\* new TextEncoder().encode(message)
TextEncode(message) == Bytes("utf8", 0, message, TRUE)

\* nacl.sign.detached
detached(messageBytes, secretKey) == Bytes("sig", secretKey.seed, messageBytes.text, TRUE)

\* The outcome of a call: it threw, or it returned value
Returned(value) == [threw |-> FALSE, value |-> value]
Threw == [threw |-> TRUE, value |-> FALSE]

\* nacl.sign.detached.verify throws 'bad signature size' or 'bad public key
\* size'
BadSize(signatureBytes, publicKeyBytes) ==
    ByteLength(signatureBytes) # 64 \/ ByteLength(publicKeyBytes) # 32

\* nacl.sign.detached.verify, on a 64-byte signature and a 32-byte key
detachedVerify(messageBytes, signatureBytes, publicKeyBytes) ==
    /\ signatureBytes.kind = "sig" /\ signatureBytes.intact
    /\ publicKeyBytes.kind = "pk" /\ publicKeyBytes.intact
    /\ signatureBytes.seed = publicKeyBytes.seed
    /\ signatureBytes.text = messageBytes.text

\* A base64 text: the bytes it decodes to, and whether it ends with the '='
\* padding that Buffer.toString('base64') writes.  Buffer.from(text, 'base64')
\* decodes a text without its padding to the same bytes.
encodeBase64(bytes) == [bytes |-> bytes, padded |-> TRUE]

decodeBase64(base64) == base64.bytes

\* Buffer.from(x, 'base64') throws a TypeError when x is undefined
NotAString == [bytes |-> Bytes("undefined", 0, "", TRUE), padded |-> FALSE]
\* a text with no base64 character in it decodes to the empty array
NotBase64 == [bytes |-> Bytes("none", 0, "", TRUE), padded |-> FALSE]

\* strings.join(separator)
RECURSIVE join(_, _)
join(strings, separator) ==
    IF Len(strings) = 0 THEN ""
    ELSE IF Len(strings) = 1 THEN strings[1]
    ELSE strings[1] \o separator \o join(Tail(strings), separator)

\* hex.slice(first, last): what there is of the string from first up to last
slice(string, first, last) ==
    IF first >= Len(string) THEN "" ELSE SubSeq(string, first + 1, Min(last, Len(string)))

\* byte.toString(16)
toString16(byte) ==
    IF byte < 16 THEN HexDigits[byte + 1]
    ELSE HexDigits[(byte \div 16) + 1] \o HexDigits[(byte % 16) + 1]

\* byte.toString(16).padStart(2, '0')
padStart2(string) == IF Len(string) < 2 THEN "0" \o string ELSE string

\* generateUUID() writing each byte as toString(16) leaves it
generateUUIDUnpadded(random) ==
    LET bytes == [random EXCEPT ![7] = (@ % 16) + 64, ![9] = (@ % 64) + 128]
        hex == join([i \in 1..16 |-> toString16(bytes[i])], "")
    IN  join(<<slice(hex, 0, 8), slice(hex, 8, 12), slice(hex, 12, 16),
               slice(hex, 16, 20), slice(hex, 20, 32)>>, "-")

\* generateUUID(), on the 16 bytes randomBytes(16) gave: bytes[6] and bytes[8]
\* are the seventh and ninth of them
generateUUID(random) ==
    LET bytes == [random EXCEPT ![7] = (@ % 16) + 64, ![9] = (@ % 64) + 128]
        hex == join([i \in 1..16 |-> padStart2(toString16(bytes[i]))], "")
    IN  join(<<slice(hex, 0, 8), slice(hex, 8, 12), slice(hex, 12, 16),
               slice(hex, 16, 20), slice(hex, 20, 32)>>, "-")

\* What randomBytes(16) gives: a value for bytes[6], a value for bytes[8],
\* and 0x05 or 0xc3 by turns for the fourteen others
VersionByteValues == {5, 255}
VariantByteValues == {5, 16, 175, 255}
RandomBytes ==
    {[i \in 1..16 |-> IF i = 7 THEN b6 ELSE IF i = 9 THEN b8
                      ELSE IF i % 2 = 1 THEN 5 ELSE 195] :
        b6 \in VersionByteValues, b8 \in VariantByteValues}

Uuids == {generateUUID(random) : random \in RandomBytes}

generateAgentIdentity(seed, uuid) ==
    [identity |-> [id |-> "snap:agent:" \o uuid,
                   publicKey |-> encodeBase64(keyPair(seed).publicKey)],
     privateKey |-> keyPair(seed).secretKey,
     publicKey |-> keyPair(seed).publicKey]

signMessage(message, privateKey) == encodeBase64(detached(TextEncode(message), privateKey))

\* The body of verifySignature's try block
verifySignatureUncaught(message, signature, publicKey) ==
    LET messageBytes == TextEncode(message)
        signatureBytes == decodeBase64(signature)
        publicKeyBytes == decodeBase64(publicKey)
    IN  IF signature = NotAString \/ publicKey = NotAString THEN Threw
        ELSE IF BadSize(signatureBytes, publicKeyBytes) THEN Threw
        ELSE Returned(detachedVerify(messageBytes, signatureBytes, publicKeyBytes))

\* verifySignature: whatever the try block throws is caught and answered
\* with false
verifySignature(message, signature, publicKey) ==
    LET tried == verifySignatureUncaught(message, signature, publicKey)
    IN  IF tried.threw THEN Returned(FALSE) ELSE tried

\* AgentIdentity.sign
sign(self, message) == signMessage(message, self.privateKey)

\* signObject() signing the object as JSON.stringify writes it
signObjectAsWritten(self, obj) == sign(self, stringify(obj))

\* AgentIdentity.signObject
signObject(self, obj) == sign(self, canonicalizeObject(obj))

\* exportPublic() spreading the whole of this
exportPublicAll(self) ==
    Assign(Assign(self.identity, "privateKey", encodeBase64(self.privateKey)),
           "publicKey", encodeBase64(self.publicKey))

\* AgentIdentity.exportPublic
exportPublic(self) == Assign(self.identity, "publicKey", encodeBase64(self.publicKey))

\* new AgentIdentity(identity, privateKey, publicKey)
AgentIdentity(identity, privateKey, publicKey) ==
    [identity |-> identity, privateKey |-> privateKey, publicKey |-> publicKey]

\* privateKey.slice(32): of the 64 bytes of a secret key, the public key of
\* its pair; of 32 bytes or fewer, nothing
slice32(bytes) ==
    IF bytes.kind = "sk" THEN Bytes("pk", bytes.seed, "", bytes.intact)
    ELSE Bytes("none", 0, "", TRUE)

\* fromPrivateKey() taking the public key the identity carries
fromPrivateKeyAsSupplied(identity, privateKeyBase64) ==
    LET privateKey == decodeBase64(privateKeyBase64)
        publicKey == IF Has(identity, "publicKey") THEN decodeBase64(identity.publicKey)
                     ELSE slice32(privateKey)
    IN  AgentIdentity(identity, privateKey, publicKey)

\* AgentIdentity.fromPrivateKey
fromPrivateKey(identity, privateKeyBase64) ==
    LET privateKey == decodeBase64(privateKeyBase64)
        publicKey == slice32(privateKey)
    IN  AgentIdentity(identity, privateKey, publicKey)

\* AgentIdentity.generate
generate(seed, uuid) ==
    LET generated == generateAgentIdentity(seed, uuid)
    IN  AgentIdentity(generated.identity, generated.privateKey, generated.publicKey)

\* AgentIdentity.exportPrivateKey
exportPrivateKey(self) == encodeBase64(self.privateKey)

----------------------------------------------------------------------------
(* A sender signs a message, the message and its signature travel, and a   *)
(* receiver verifies them with the sender's exported public key.           *)

Envelope(more) ==
    Obj(<< <<"id", Str("msg_1")>>, <<"version", Str("1.0")>>,
           <<"from", Obj(<< <<"id", Str(AgentA.id)>> >>)>>,
           <<"timestamp", Str(NewDateIso)>> >> \o more)

\* Messages as build() returns them
SignableMessages ==
    { Envelope(<< <<"to", Obj(<< <<"id", Str(AgentB.id)>> >>)>>,
                  <<"parts", Arr(<< Obj(<< <<"type", Str("text")>>,
                                           <<"content", Str("hello")>> >>) >>)>> >>),
      Envelope(<< <<"parts", Arr(<< Obj(<< <<"type", Str("data")>>,
                                           <<"content", Obj(<< <<"answer", Num(42)>>,
                                                               <<"note", Null>> >>)>> >>) >>)>>,
                  <<"context", Str("ctx_1")>>,
                  <<"metadata", Obj(<< <<"score", NaN>>,
                                       <<"tags", Arr(<<Str("a"), Str("b")>>)>> >>)>> >>) }

\* The places of the values a message holds, each the positions to follow
\* from the message down
RECURSIVE LeafPaths(_)
LeafPaths(x) ==
    IF Len(x.kids) = 0 THEN {<<>>}
    ELSE UNION {{<<i>> \o path : path \in LeafPaths(x.kids[i][2])} : i \in 1..Len(x.kids)}

RECURSIVE At(_, _)
At(x, path) == IF Len(path) = 0 THEN x ELSE At(x.kids[Head(path)][2], Tail(path))

RECURSIVE ReplaceAt(_, _, _)
ReplaceAt(x, path, v) ==
    IF Len(path) = 0 THEN v
    ELSE [x EXCEPT !.kids[Head(path)][2] = ReplaceAt(@, Tail(path), v)]

Replacements == {Str("evil"), Num(7), Null, NaN}

Generate ==
    /\ ~agent.made
    /\ \E seed \in Seeds, random \in RandomBytes :
          agent' = [made |-> TRUE, how |-> "generate"]
                       @@ generate(seed, generateUUID(random))
    /\ UNCHANGED <<wire, verdict, taskVars, builderVars, canonVars>>

\* The identities handed to fromPrivateKey: with no public key, with the
\* public key of a pair
SuppliedIdentities ==
    {AgentA} \cup {Assign(AgentA, "publicKey", encodeBase64(keyPair(seed).publicKey)) :
                      seed \in Seeds}

\* The private keys handed to fromPrivateKey, as exportPrivateKey() wrote them
PrivateKeys == {exportPrivateKey(generate(seed, uuid)) : seed \in Seeds, uuid \in Uuids}

FromPrivateKey ==
    /\ ~agent.made
    /\ \E identity \in SuppliedIdentities, privateKeyBase64 \in PrivateKeys :
          agent' = [made |-> TRUE, how |-> "fromPrivateKey"]
                       @@ fromPrivateKey(identity, privateKeyBase64)
    /\ UNCHANGED <<wire, verdict, taskVars, builderVars, canonVars>>

\* createMessage(alice.exportPublic()).to(bob.exportPublic()).text(...).build()
CreateMessage ==
    /\ agent.made /\ ~wire.sent /\ built = NotBuilt
    /\ built' = [op |-> "build",
                 result |-> build(text(to(MessageBuilder(exportPublic(agent), NewMessageId,
                                                         NewDateIso), AgentB),
                                       "hello", Undefined))]
    /\ UNCHANGED <<builder, made, trace, kept, thread, taskVars, canonVars, signVars>>

\* A value of the canonicalizer as the object the schemas read: an object as
\* a function of its keys, an array as a sequence, a string or a number as
\* itself; what is left (null, NaN, a boolean) only occurs where a schema
\* says z.any().
RECURSIVE Plain(_)
Plain(x) ==
    CASE x.t = "object" -> [k \in Keys(x) |-> Plain(ValueOf(x, k))]
      [] x.t = "array" -> [i \in 1..Len(x.kids) |-> Plain(x.kids[i][2])]
      [] x.t = "string" -> x.s
      [] x.t = "number" -> x.n
      [] OTHER -> x

\* { ...message, signature }: a signature that is undefined is a signature
\* the schema takes as absent
Signed(message, signature) ==
    IF signature = NotAString THEN message ELSE Assign(message, "signature", signature)

SignObject ==
    /\ agent.made /\ ~wire.sent
    /\ \E message \in SignableMessages :
          wire' = [sent |-> TRUE,
                   original |-> message, signed |-> signObject(agent, message),
                   message |-> message, signature |-> signObject(agent, message),
                   key |-> exportPublic(agent).publicKey,
                   publicKey |-> exportPublic(agent).publicKey]
    /\ UNCHANGED <<agent, verdict, taskVars, builderVars, canonVars>>

Untouched ==
    /\ wire.sent /\ wire.message = wire.original
    /\ wire.signature = wire.signed /\ wire.publicKey = wire.key

\* A value of the message is changed on the way
TamperField ==
    /\ Untouched /\ ~verdict.done
    /\ \E path \in LeafPaths(wire.message), v \in Replacements :
          /\ v # At(wire.message, path)
          /\ wire' = [wire EXCEPT !.message = ReplaceAt(@, path, v)]
    /\ UNCHANGED <<agent, verdict, taskVars, builderVars, canonVars>>

\* The signature text is changed on the way: its padding is cut off
TamperSignatureText ==
    /\ Untouched /\ ~verdict.done
    /\ wire' = [wire EXCEPT !.signature.padded = FALSE]
    /\ UNCHANGED <<agent, verdict, taskVars, builderVars, canonVars>>

\* The signature is changed on the way: a byte of it is flipped
TamperSignatureBytes ==
    /\ Untouched /\ ~verdict.done
    /\ wire' = [wire EXCEPT !.signature.bytes.intact = FALSE]
    /\ UNCHANGED <<agent, verdict, taskVars, builderVars, canonVars>>

\* What arrives as the signature is not one: not a string, not base64, or
\* bytes of another length
MalformedSignatures ==
    {NotAString, NotBase64, encodeBase64(Bytes("pk", 1, "", TRUE))}

MalformSignature ==
    /\ Untouched /\ ~verdict.done
    /\ \E malformed \in MalformedSignatures :
          wire' = [wire EXCEPT !.signature = malformed]
    /\ UNCHANGED <<agent, verdict, taskVars, builderVars, canonVars>>

\* What the receiver holds as the sender's public key is not it: not a
\* string, not base64, the 64 bytes of a secret key, 32 bytes that are no
\* key, or the key of another pair
MalformedKeys ==
    {NotAString, NotBase64, encodeBase64(Bytes("sk", 1, "", TRUE)),
     encodeBase64(Bytes("pk", 1, "", FALSE))}
    \cup {encodeBase64(keyPair(seed).publicKey) : seed \in Seeds}

MalformPublicKey ==
    /\ Untouched /\ ~verdict.done
    /\ \E malformed \in MalformedKeys \ {wire.key} :
          wire' = [wire EXCEPT !.publicKey = malformed]
    /\ UNCHANGED <<agent, verdict, taskVars, builderVars, canonVars>>

\* The receiver validates the message, which arrived as it was sent, with
\* the signature that arrived
Validate ==
    /\ wire.sent /\ wire.message = wire.original /\ built = NotBuilt
    /\ built' = [op |-> "validate",
                 result |-> validate(Signed(Plain(wire.message), wire.signature))]
    /\ UNCHANGED <<builder, made, trace, kept, thread, taskVars, canonVars, signVars>>

Verify ==
    /\ wire.sent
    /\ LET tried == verifySignature(canonicalize(wire.message), wire.signature,
                                    wire.publicKey)
       IN  verdict' = [done |-> TRUE, ok |-> tried.value, threw |-> tried.threw]
    /\ UNCHANGED <<agent, wire, taskVars, builderVars, canonVars>>

NextSigned ==
    \/ Generate
    \/ FromPrivateKey
    \/ CreateMessage
    \/ SignObject
    \/ TamperField
    \/ TamperSignatureText
    \/ TamperSignatureBytes
    \/ MalformSignature
    \/ MalformPublicKey
    \/ Validate
    \/ Verify

SpecSigned == Init /\ [][NextSigned]_vars

\* C19: the signature a generated identity makes over the canonical form of
\* a valid message verifies, against that canonical form, under the public
\* key the identity exports.
SignedMessageVerifies == (verdict.done /\ Untouched) => verdict.ok

SignedMessageWitness ==
    /\ verdict.done /\ Untouched /\ verdict.ok
    /\ agent.made /\ Has(wire.original, "kids") /\ Len(wire.original.kids) = 7

\* C20: after a value of the signed message, or its signature, was changed
\* on the way, verification answers false.
TamperDetected == (verdict.done /\ ~Untouched) => ~verdict.ok

\* C21: verifySignature never throws, and answers false when the public key
\* is malformed, when the signature is malformed, and when the payload is
\* not the one that was signed.
IsSignature(base64) ==
    /\ base64 # NotAString
    /\ base64.bytes.kind = "sig" /\ base64.bytes.intact

IsPublicKey(base64) ==
    /\ base64 # NotAString
    /\ base64.bytes.kind = "pk" /\ base64.bytes.intact

PayloadMatches == canonicalize(wire.message) = canonicalize(wire.original)

VerifyNeverRaises ==
    verdict.done =>
        /\ ~verdict.threw
        /\ (~IsPublicKey(wire.publicKey) \/ ~IsSignature(wire.signature)
              \/ wire.publicKey # wire.key \/ ~PayloadMatches) => ~verdict.ok

VerifyNeverRaisesWitness ==
    /\ verdict.done /\ ~verdict.threw /\ ~verdict.ok
    /\ wire.publicKey = NotAString

\* C22: what exportPublic() returns holds the fields of the identity
\* reference and the public key, nothing else, and is the same whatever the
\* private key is.
OtherPrivateKeys ==
    {Bytes("sk", seed, "", intact) : seed \in Seeds, intact \in BOOLEAN}

ExportIndependentOfPrivateKey ==
    agent.made =>
        /\ DOMAIN exportPublic(agent) = DOMAIN agent.identity \cup {"publicKey"}
        /\ exportPublic(agent).publicKey = encodeBase64(agent.publicKey)
        /\ \A k \in DOMAIN agent.identity \ {"publicKey"} :
              exportPublic(agent)[k] = agent.identity[k]
        /\ \A privateKey \in OtherPrivateKeys :
              exportPublic([agent EXCEPT !.privateKey = privateKey]) = exportPublic(agent)

ExportWitness ==
    /\ agent.made /\ agent.how = "fromPrivateKey"
    /\ ~Has(agent.identity, "publicKey")
    /\ agent.privateKey.seed = 2
    /\ exportPublic(agent).publicKey.bytes.seed = 2

\* C23: an identity made by fromPrivateKey exports the public key of the
\* pair the private key belongs to, whatever public key the identity it was
\* given carries.
DerivedPublicKey ==
    (agent.made /\ agent.how = "fromPrivateKey") =>
        exportPublic(agent).publicKey = encodeBase64(keyPair(agent.privateKey.seed).publicKey)

DerivedPublicKeyWitness ==
    /\ agent.made /\ agent.how = "fromPrivateKey"
    /\ Has(agent.identity, "publicKey")
    /\ agent.identity.publicKey # exportPublic(agent).publicKey
    /\ exportPublic(agent).publicKey = encodeBase64(keyPair(agent.privateKey.seed).publicKey)
    /\ verdict.done /\ Untouched /\ verdict.ok

\* C24: the id of a generated identity is snap:agent: followed by a UUID
\* whose version digit is 4 and whose variant digit is 8, 9, a or b;
\* validateAgentId and AgentIDSchema accept it, and a message built from the
\* identity is not refused.
GeneratedIdIsValid ==
    (agent.made /\ agent.how = "generate") =>
        LET generated == agent.identity.id
        IN  /\ Len(generated) = 47
            /\ SubSeq(generated, 1, 11) = "snap:agent:"
            /\ SubSeq(generated, 26, 26) = "4"
            /\ SubSeq(generated, 31, 31) \in {"8", "9", "a", "b"}
            /\ validateAgentId(generated)
            /\ AgentIDSchemaOk(agent.identity)
            /\ AgentIDSchemaOk(exportPublic(agent))
            /\ Built("build") =>
                  (built.result.ok /\ built.result.value.from.id = generated)

GeneratedIdWitness ==
    /\ agent.made /\ agent.how = "generate"
    /\ agent.identity.id = "snap:agent:05c305c3-05c3-4fc3-afc3-05c305c305c3"
    /\ Built("build") /\ built.result.ok

\* C27: a message that passes validation and carries a signature has a
\* signature that verifies, under the sender's public key, against the
\* canonical form of the message without the signature.
ValidatedSignatureVerifies ==
    (Built("validate") /\ built.result.ok /\ Has(built.result.value, "signature")) =>
        verifySignature(canonicalize(wire.message), built.result.value.signature,
                        wire.key).value

\* C37: the publicKey of an AgentIdentity's identity reference is the base64
\* text of its publicKey bytes, whether generate() or fromPrivateKey() made
\* it, so that a signature the agent makes verifies under it.
IdentityCarriesPublicKey ==
    agent.made =>
        /\ Has(agent.identity, "publicKey")
        /\ agent.identity.publicKey = encodeBase64(agent.publicKey)
        /\ (verdict.done /\ Untouched) =>
              verifySignature(canonicalize(wire.message), wire.signature,
                              agent.identity.publicKey).value

\* C36: validating a message build() returned succeeds and returns a message
\* equal to it (nothing stripped, defaulted or rewritten), so the two have the
\* same canonical form.
ValidateIsIdempotent ==
    (Built("build") /\ built.result.ok) =>
        validate(built.result.value) = [ok |-> TRUE, value |-> built.result.value]

ValidateIsIdempotentWitness ==
    /\ Built("build") /\ built.result.ok
    /\ made.op = "reply"
    /\ Has(built.result.value, "payment")
    /\ built.result.value.version = "1.0"
    /\ validate(built.result.value).ok

ThreadKeepsContext ==
    \A i \in 2..Len(thread) :
        /\ Has(thread[i], "context")
        /\ thread[i].context =
              IF hasContext(thread[1]) THEN thread[1].context ELSE thread[1].id

\* C38: a message SNAPMessageSchema accepted and a message build() returned
\* are recognised by isSNAPMessage.
ValidIsRecognised ==
    \A i \in 1..Len(thread) : isSNAPMessage(thread[i])

\* C39: sortByCreatedAt and filterByStatus leave the array passed to them as
\* it was, same tasks in the same order, and return another array.
ListArgumentUnchanged ==
    list.op \in {"filterByStatus", "sortByCreatedAt"} =>
        (list.array = list.passed /\ ~list.same)

====
